---- MODULE Spec2Model ----
(***************************************************************************)
(* Model of the code-integration edge functions of neurelix-nexus:         *)
(*   github-oauth, github-oauth-callback, git-connect (part_004),          *)
(*   the auto-link detector and the retry wrapper (part_003),              *)
(*   the permission checker and the audit logger (_shared).                *)
(*                                                                         *)
(* The relational store is modelled table by table as sets of rows.  A     *)
(* handler is one action: it reads and writes the tables in the order of   *)
(* the source and leaves its HTTP response in the variable response.       *)
(* Outcomes of the collaborators (the provider's HTTP API, a store write   *)
(* whose error the code inspects, the audit insert) are inputs chosen      *)
(* nondeterministically.  A store call whose result the code discards is   *)
(* modelled as succeeding.                                                 *)
(***************************************************************************)
EXTENDS Integers, Sequences, FiniteSets, TLC

NULL == "null"
\* an absent state parameter, an absent connection id, an absent timestamp
NoState == 0
NoId == 0
NoTime == 0 - 1

(* ------------------------------ bounds --------------------------------- *)
\* the clock advances MaxTicks times, by the lifetime of a state each time
MaxTicks == 2
\* number of audit_events rows kept (the log is append-only and never read)
MaxAuditRows == 1
\* number of state tokens POST /start may mint
MaxStates == 2
\* number of provider_connections rows installation callbacks may insert
MaxConnections == 2
\* the largest maxRetries withRetry is called with
MaxRetriesArg == 4
\* a text is made of up to MaxTokens tokens
MaxTokens == 4
\* number of rows of tarefa_git_links before the first createAutoLinks
MaxInitialLinks == 2
\* number of times createAutoLinks is called with the same arguments
MaxRuns == 2
\* number of tarefa_git_links rows manual and automatic links may add up to
MaxLinks == 3
\* number of pieces of a text given to processAutoLink
MaxPieces == 2

\* number of provider_connections rows in all: an OAuth callback may insert
\* one when installation callbacks have inserted theirs
MaxRows == MaxConnections + 1

(* ------------------------- program constants --------------------------- *)
\* expiry of an OAuth state, in minutes: Date.now() + 5 * 60 * 1000
StateTTL == 5

Users == {"u1", "u2"}
Projects == {"p1", "p2"}
Codes == {"c1"}
\* the requests for the callback path: the method decides which of the other
\* parts of a request the serve handlers read
CallbackRequests ==
    [method : {"OPTIONS"}, auth : {NULL}, code : {NULL}, state : {0}]
    \cup [method : {"POST"}, auth : Users \cup {NULL}, code : {NULL}, state : {0}]
    \cup [method : {"GET"}, auth : {NULL}, code : Codes \cup {NULL},
          state : 0..MaxStates]
Installations == {"i1"}
ProviderRepos == {"r1", "r2"}
EnvSettings == [GITHUB_CLIENT_ID : BOOLEAN, GITHUB_CLIENT_SECRET : BOOLEAN,
                GITHUB_REDIRECT_URI : BOOLEAN]

VARIABLES
    now,                   \* current time (minutes)
    env,                   \* Deno.env: which GitHub OAuth settings are set
    project_members,       \* table project_members
    github_oauth_states,   \* table github_oauth_states
    minted,                \* number of state tokens minted so far
    provider_connections,  \* table provider_connections
    repos,                 \* table repos
    branches,              \* table branches
    project_repos,         \* table project_repos
    inflight,              \* the callback requests that run interleaved
    github_repos,          \* provider side: repositories an installation lists
    audit_events,          \* table audit_events, as the sequence of its rows
    succeeded,             \* the state tokens a callback has succeeded with
    response               \* the last HTTP response, with the request it answers

\* the store, the provider and the request in progress of the edge functions
storeVars == <<now, env, project_members, github_oauth_states, minted,
               provider_connections, repos, github_repos, project_repos, inflight, branches, audit_events, succeeded,
               response>>

\* one invocation of withRetry(fn, maxRetries, delay)
VARIABLES
    maxRetries,            \* argument maxRetries
    delay,                 \* argument delay (milliseconds)
    i,                     \* the loop variable
    lastError,             \* the local lastError
    pc,                    \* where the invocation is: "idle", "loop", "waiting",
                           \* "returned" or "raised"
    calls,                 \* number of calls of fn so far
    thrown,                \* the values fn has rejected with, in order
    waits,                 \* the timeouts awaited, in order
    raised,                \* the error withRetry rejected with
    returned               \* the value withRetry resolved with

retryVars == <<maxRetries, delay, i, lastError, pc, calls, thrown, waits, raised,
               returned>>

\* one call of detectTarefaKeys(text)
VARIABLES
    text,                  \* the argument, as the sequence of its characters
    detected,              \* whether the call has returned
    keys                   \* the array it returned

detectVars == <<text, detected, keys>>

\* calls of createAutoLinks with the same arguments
VARIABLES
    tarefas,               \* table tarefas
    tarefa_git_links,      \* table tarefa_git_links
    args,                  \* the arguments tarefaKeys, projectId and metadata
    runs                   \* number of calls that have returned

linkVars == <<tarefas, tarefa_git_links, args, runs>>

vars == <<storeVars, retryVars, detectVars, linkVars>>

(* ------------------------------ helpers -------------------------------- *)
\* supabase-js .maybeSingle(): the row when exactly one matches, otherwise
\* data = null (no row: no error; several rows: error PGRST116, data null)
NoRow == [absent |-> TRUE]

MaybeSingle(rows) ==
    IF Cardinality(rows) = 1 THEN CHOOSE r \in rows : TRUE ELSE NoRow

\* the callback requests that can be in progress at the same time
Requests == {1, 2}

\* a request that has not arrived
NotArrived == [pc |-> "none", fn |-> NULL, state |-> NoState, oauthState |-> NoRow,
               reason |-> NULL]

NoRequests == [k \in Requests |-> NotArrived]

(* ---------------------- _shared/permissions.ts ------------------------- *)
\* getProjectRole: the caller's role in the project, or null
getProjectRole(userId, projectId) ==
    LET data == MaybeSingle({m \in project_members :
                               m.user_id = userId /\ m.project_id = projectId})
    IN  IF data = NoRow THEN NULL ELSE data.role

\* every member of the project allowed
canConnectGit_anyMember(userId, projectId) ==
    getProjectRole(userId, projectId) # NULL

\* canConnectGit: admin only
canConnectGit(userId, projectId) == getProjectRole(userId, projectId) = "admin"

(* ------------------------- _shared/audit.ts ---------------------------- *)
\* the insert succeeds, returns an error, or throws; it can succeed only
\* while the kept log has room
AuditOutcomes(audit) ==
    IF Len(audit) < MaxAuditRows THEN {"ok", "error", "throw"} ELSE {"error", "throw"}

\* logAuditEvent: the insert is awaited inside try/catch and its result is
\* discarded; the row is stored only when the insert succeeds.  A caller
\* that logAuditEvent raised to would leave through its own catch.
logAuditEvent(audit, actorId, action, entityId, after, outcome) ==
    IF outcome = "ok"
    THEN Append(audit, [actor_id |-> actorId, action |-> action,
                        entity_id |-> entityId, after |-> after])
    ELSE audit

\* the catch rethrowing what the insert threw
AuditRaises_rethrown(outcome) == outcome = "throw"

\* whether logAuditEvent raises to its caller: the catch logs what the insert
\* threw and returns, and an error the insert returns is never inspected
AuditRaises(outcome) == FALSE

(* ------------------- the OAuth callback (GET /callback) ---------------- *)
\* the three settings the callback handlers require
CallbackConfigured ==
    env.GITHUB_CLIENT_ID /\ env.GITHUB_CLIENT_SECRET /\ env.GITHUB_REDIRECT_URI

\* what the store holds for a state parameter when a request arrives
StateAtCall(state) ==
    IF state = NoState THEN "none"
    ELSE IF \A r \in github_oauth_states : r.state # state THEN "absent"
    ELSE IF \E r \in github_oauth_states : r.state = state /\ r.expires_at > now
         THEN "valid" ELSE "expired"

\* the lookup without its expiry filter
ValidStateRows_unfiltered(state) ==
    {r \in github_oauth_states : r.state = state}

\* the lookup without its filter on the state parameter
ValidStateRows_anyState(state) ==
    {r \in github_oauth_states : r.expires_at > now}

\* .from("github_oauth_states").eq("state", state).gt("expires_at", now)
ValidStateRows(state) ==
    {r \in github_oauth_states : r.state = state /\ r.expires_at > now}

\* outcomes of POST https://github.com/login/oauth/access_token
TokenResponses ==
    {"throw", "not_ok", "not_ok_described", "no_token", "no_token_described", "ok"}
\* outcomes of GET https://api.github.com/user
UserResponses == {"throw", "not_ok", "ok"}

ProviderMessage == "provider error_description"

\* the reason string each function puts in its error redirect
ExchangeFailedReason(fn, tokenResp) ==
    IF fn = "github-oauth-callback" /\ tokenResp = "not_ok_described"
    THEN ProviderMessage ELSE "Failed to exchange code for token"

NoTokenReason(fn, tokenResp) ==
    IF fn = "github-oauth-callback" /\ tokenResp = "no_token_described"
    THEN ProviderMessage ELSE "No access token received"

UpdateFailedReason(fn) ==
    IF fn = "github-oauth-callback"
    THEN "Failed to update connection: db error" ELSE "Failed to update connection"

CreateFailedReason(fn) ==
    IF fn = "github-oauth-callback"
    THEN "Failed to create connection: db error" ELSE "Failed to create connection"

ThrownReason(fn) ==
    IF fn = "github-oauth-callback" THEN "Internal server error" ELSE "OAuth callback error"

\* result of a callback: the tables it leaves and the reason of its redirect
CallbackResult(conns, states, audit, reason) ==
    [conns |-> conns, states |-> states, audit |-> audit, reason |-> reason]

CallbackFails(reason) ==
    CallbackResult(provider_connections, github_oauth_states, audit_events, reason)

\* "Delete used state": .from("github_oauth_states").delete().eq("state", state)
DeleteUsedState_kept(states, state) == states

DeleteUsedState(states, state) == {r \in states : r.state # state}

\* "Create or update connection" up to the success redirect
PersistConnection(fn, state, oauthState) ==
    LET existingConnection ==
            MaybeSingle({c \in provider_connections :
                           c.project_id = oauthState.project_id /\ c.provider = "github"})
        updated ==
            {IF c.id = existingConnection.id
             THEN [c EXCEPT !.access_token_encrypted = "token", !.status = "active"]
             ELSE c : c \in provider_connections}
        newId == Cardinality(provider_connections) + 1
        inserted ==
            provider_connections \cup
              {[id |-> newId, project_id |-> oauthState.project_id,
                provider |-> "github", status |-> "active",
                installation_id |-> NULL, access_token_encrypted |-> "token",
                created_by |-> oauthState.user_id, last_sync_at |-> NoTime]}
        remaining == DeleteUsedState(github_oauth_states, state)
        succeed(conns, connectionId) ==
            {CallbackResult(conns, remaining,
                            logAuditEvent(audit_events, oauthState.user_id, "CONNECT",
                                          connectionId, NULL, a),
                            IF AuditRaises(a) THEN ThrownReason(fn)
                            ELSE "connected") : a \in AuditOutcomes(audit_events)}
    IN  IF existingConnection # NoRow
        THEN {CallbackFails(UpdateFailedReason(fn))}
             \cup succeed(updated, existingConnection.id)
        ELSE {CallbackFails(CreateFailedReason(fn))}
             \cup (IF newId <= MaxRows THEN succeed(inserted, newId) ELSE {})

\* the handler from the token exchange on, for the state row it has read
ExchangeAndPersist(fn, state, oauthState) ==
    LET afterUser(userResp) ==
            CASE userResp = "throw" -> {CallbackFails(ThrownReason(fn))}
              [] userResp = "not_ok" -> {CallbackFails("Failed to fetch GitHub user")}
              [] OTHER -> PersistConnection(fn, state, oauthState)
        afterToken(tokenResp) ==
            CASE tokenResp = "throw" -> {CallbackFails(ThrownReason(fn))}
              [] tokenResp \in {"not_ok", "not_ok_described"} ->
                     {CallbackFails(ExchangeFailedReason(fn, tokenResp))}
              [] tokenResp \in {"no_token", "no_token_described"} ->
                     {CallbackFails(NoTokenReason(fn, tokenResp))}
              [] OTHER -> UNION {afterUser(u) : u \in UserResponses}
    IN  UNION {afterToken(t) : t \in TokenResponses}

\* handleOAuthCallback of github-oauth, and the GET branch of the
\* github-oauth-callback function, with the catch around each
HandleOAuthCallback(fn, code, state) ==
    IF ~CallbackConfigured THEN {CallbackFails("GitHub OAuth not configured")}
    ELSE IF code = NULL \/ state = NoState
    THEN {CallbackFails("Missing code or state parameter")}
    ELSE
      LET oauthState == MaybeSingle(ValidStateRows(state))
      IN  \* stateError || !oauthState
          {CallbackFails("Invalid or expired state")}
          \cup (IF oauthState = NoRow THEN {}
                ELSE ExchangeAndPersist(fn, state, oauthState))

(* ----------------------------- responses ------------------------------- *)
\* an HTTP response together with the request it answers; kind is
\* "redirect" (Location header, no body), "json" or "empty"; value is the
\* state token or the connection id a success body carries; for a callback
\* the response also records the method and the state parameter of the
\* request and what the store held for that state when it arrived
Response(fn, op, status, kind, reason) ==
    [fn |-> fn, op |-> op, status |-> status, kind |-> kind, reason |-> reason,
     value |-> NoId, method |-> NULL, state |-> NoState, stateAtCall |-> "none"]

NoResponse == Response(NULL, NULL, 0, "empty", NULL)

\* a request without a valid token taken for the first user
validateAuth_anonymous(auth) == IF auth = NULL THEN "u1" ELSE auth

\* validateAuth: the user id of a valid bearer token, "" otherwise; a request
\* carries auth = NULL when its token is missing, malformed or invalid
validateAuth(auth) == IF auth = NULL THEN "" ELSE auth

(* ------------- serve handlers around the OAuth callback ---------------- *)
CallbackFns == {"github-oauth", "github-oauth-callback"}

\* the catch answering as the JSON routes do
CallbackResponse_jsonCatch(fn, method, state, status, kind, reason) ==
    [Response(fn, "oauth_callback",
              IF reason = ThrownReason(fn) THEN 500 ELSE status,
              IF reason = ThrownReason(fn) THEN "json" ELSE kind, reason) EXCEPT
       !.method = method, !.state = state, !.stateAtCall = StateAtCall(state)]

CallbackResponse(fn, method, state, status, kind, reason) ==
    [Response(fn, "oauth_callback", status, kind, reason) EXCEPT
       !.method = method, !.state = state, !.stateAtCall = StateAtCall(state)]

\* a request for the callback path of either function: the responses it can
\* get, each with the tables it leaves
ServeCallback(fn, method, auth, code, state) ==
    LET untouched(status, kind, reason) ==
            {[result |-> CallbackFails(reason),
              response |-> CallbackResponse(fn, method, state, status, kind, reason)]}
    IN  IF method = "OPTIONS" THEN untouched(200, "empty", NULL)
        ELSE IF method = "GET"
        THEN {[result |-> r,
               response |-> CallbackResponse(fn, method, state, 302, "redirect",
                                             r.reason)]
              : r \in HandleOAuthCallback(fn, code, state)}
        ELSE IF fn = "github-oauth-callback"
        THEN untouched(405, "json", "Method not allowed")
        ELSE IF validateAuth(auth) = ""
        THEN untouched(401, "json", "Unauthorized")
        ELSE untouched(404, "json", "Not found")

OAuthCallback(fn, method, auth, code, state) ==
    /\ \E o \in ServeCallback(fn, method, auth, code, state) :
          /\ provider_connections' = o.result.conns
          /\ github_oauth_states' = o.result.states
          /\ audit_events' = o.result.audit
          /\ response' = o.response
          /\ succeeded' = IF o.result.reason = "connected"
                          THEN succeeded \cup {state} ELSE succeeded
    /\ UNCHANGED <<now, env, project_members, github_repos, project_repos, inflight, branches, minted, repos>>

(* --------------- callback requests that run interleaved ---------------- *)
\* Each await of the handler is a separate request to the store or to the
\* provider, so another request can run between the lookup of the state row
\* and the writes.  A GET request with a code and a state arrives and
\* the handler reads the state row: .eq("state", state).gt("expires_at", now)
\* .maybeSingle(), rejecting the request when there is none.
CallbackLookup(k, fn, state) ==
    LET oauthState == MaybeSingle(ValidStateRows(state))
        request == [pc |-> IF oauthState = NoRow THEN "done" ELSE "exchanging",
                    fn |-> fn, state |-> state, oauthState |-> oauthState,
                    reason |-> IF oauthState = NoRow
                               THEN "Invalid or expired state" ELSE NULL]
    IN  /\ inflight[k].pc = "none"
        /\ CallbackConfigured
        /\ inflight' = [inflight EXCEPT ![k] = request]
        /\ response' = IF oauthState = NoRow
                       THEN CallbackResponse(fn, "GET", state, 302, "redirect",
                                             "Invalid or expired state")
                       ELSE response
        /\ UNCHANGED <<now, env, project_members, github_oauth_states, minted,
                       provider_connections, repos, github_repos, project_repos,
                       branches, audit_events, succeeded>>

\* the rest of the handler for the state row it has read: token exchange,
\* identity fetch, the write of the connection, the delete of the state, the
\* audit record and the redirect
CallbackFinish(k) ==
    LET request == inflight[k]
    IN  /\ request.pc = "exchanging"
        /\ \E r \in ExchangeAndPersist(request.fn, request.state, request.oauthState) :
              /\ provider_connections' = r.conns
              /\ github_oauth_states' = r.states
              /\ audit_events' = r.audit
              /\ response' = [CallbackResponse(request.fn, "GET", request.state, 302,
                                               "redirect", r.reason)
                                EXCEPT !.stateAtCall = "valid"]
              /\ succeeded' = IF r.reason = "connected"
                              THEN succeeded \cup {request.state} ELSE succeeded
              /\ inflight' = [inflight EXCEPT ![k] = [request EXCEPT
                                                        !.pc = "done",
                                                        !.reason = r.reason]]
        /\ UNCHANGED <<now, env, project_members, minted, repos, github_repos,
                       project_repos, branches>>

(* ---------------------- POST /start of github-oauth -------------------- *)
\* handleOAuthStart behind the token check of the serve handler
OAuthStart(auth, projectId, insertFails) ==
    LET userId == validateAuth(auth)
        answer(status, reason) ==
            Response("github-oauth", "oauth_start", status, "json", reason)
        state == minted + 1
        row == [state |-> state, project_id |-> projectId, user_id |-> userId,
                expires_at |-> now + StateTTL]
    IN  /\ UNCHANGED <<succeeded, now, env, project_members, github_repos, project_repos, inflight, branches, provider_connections, repos,
                       audit_events>>
        /\ IF userId = ""
           THEN /\ response' = answer(401, "Unauthorized")
                /\ UNCHANGED <<github_oauth_states, minted>>
           ELSE IF projectId = NULL
           THEN /\ response' = answer(400, "projectId is required")
                /\ UNCHANGED <<github_oauth_states, minted>>
           ELSE IF ~canConnectGit(userId, projectId)
           THEN /\ response' = answer(403, "Forbidden: Only admins can connect GitHub")
                /\ UNCHANGED <<github_oauth_states, minted>>
           ELSE IF insertFails
           THEN /\ response' = answer(500, "Failed to initiate OAuth")
                /\ UNCHANGED <<github_oauth_states, minted>>
           ELSE /\ minted < MaxStates
                /\ github_oauth_states' = github_oauth_states \cup {row}
                /\ minted' = state
                /\ response' =
                     IF ~(env.GITHUB_CLIENT_ID /\ env.GITHUB_REDIRECT_URI)
                     THEN answer(500, "GitHub OAuth not configured")
                     ELSE [answer(200, NULL) EXCEPT !.value = state]

(* ------------------------- time and clean-up --------------------------- *)
\* time passes: the clock is observed at multiples of the lifetime of a
\* state, so that a stored expires_at is later than, equal to or earlier
\* than the current time
Tick ==
    /\ now < MaxTicks * StateTTL
    /\ now' = now + StateTTL
    /\ UNCHANGED <<succeeded, env, project_members, github_repos, project_repos, inflight, branches, github_oauth_states, minted,
                   provider_connections, repos, audit_events, response>>

\* cleanup_expired_oauth_states(): DELETE ... WHERE expires_at < now()
CleanupExpiredStates ==
    /\ github_oauth_states' = {r \in github_oauth_states : ~(r.expires_at < now)}
    /\ UNCHANGED <<succeeded, now, env, project_members, github_repos, project_repos, inflight, branches, minted, provider_connections, repos,
                   audit_events, response>>

(* ------------- POST /connection/revoke of github-oauth ----------------- *)
\* "Mark as revoked": .update({ status: "revoked" }).eq("id", id)
MarkRevoked(conns, id) ==
    {IF c.id = id THEN [c EXCEPT !.status = "revoked"] ELSE c : c \in conns}

\* "Remove selected repos": .update({ selected: false }).eq("connection_id", id)
ClearSelected(rs, id) ==
    {IF r.connection_id = id THEN [r EXCEPT !.selected = FALSE] ELSE r : r \in rs}

\* the token revocation fetch answers 2xx, answers with an error status, or
\* throws
RevokeOutcomes == {"ok", "error", "throw"}

\* an exception of the revocation fetch leaving the handler
RevokeRaises_rethrown(outcome) == outcome = "throw"

\* try { await fetch(... DELETE token) } catch (error) { /* Continue anyway */ }
\* and the response of the fetch is not looked at
RevokeRaises(outcome) == FALSE

\* handleRevokeConnection behind the token check; the token revocation is
\* attempted only for a connection that holds an access token
OAuthRevoke(auth, projectId, revokeFetch, updateFails, auditOutcome) ==
    LET userId == validateAuth(auth)
        answer(status, reason) ==
            Response("github-oauth", "oauth_revoke", status, "json", reason)
        connection ==
            MaybeSingle({c \in provider_connections :
                           c.project_id = projectId /\ c.provider = "github"})
    IN  /\ UNCHANGED <<succeeded, now, env, project_members, github_repos, project_repos, inflight, branches, github_oauth_states, minted>>
        /\ IF userId = ""
           THEN /\ response' = answer(401, "Unauthorized")
                /\ UNCHANGED <<provider_connections, repos, audit_events>>
           ELSE IF projectId = NULL
           THEN /\ response' = answer(400, "projectId is required")
                /\ UNCHANGED <<provider_connections, repos, audit_events>>
           ELSE IF ~canConnectGit(userId, projectId)
           THEN /\ response' = answer(403, "Forbidden")
                /\ UNCHANGED <<provider_connections, repos, audit_events>>
           ELSE IF connection = NoRow
           THEN /\ response' = answer(404, "Connection not found")
                /\ UNCHANGED <<provider_connections, repos, audit_events>>
           ELSE IF connection.access_token_encrypted # NULL /\ RevokeRaises(revokeFetch)
           THEN /\ response' = answer(500, "Internal server error")
                /\ UNCHANGED <<provider_connections, repos, audit_events>>
           ELSE IF updateFails
           THEN /\ response' = answer(500, "Failed to revoke connection")
                /\ UNCHANGED <<provider_connections, repos, audit_events>>
           ELSE /\ provider_connections' = MarkRevoked(provider_connections, connection.id)
                /\ repos' = ClearSelected(repos, connection.id)
                /\ audit_events' = logAuditEvent(audit_events, userId, "CONNECT",
                                                 connection.id, "revoked", auditOutcome)
                /\ response' = IF AuditRaises(auditOutcome)
                               THEN answer(500, "Internal server error")
                               ELSE [answer(200, NULL) EXCEPT !.value = connection.id]

(* --------------------------- git-connect ------------------------------- *)
\* catch block of syncRepos: .update({ status: "error", ... }).eq("id", id)
MarkError(conns, id) ==
    {IF c.id = id THEN [c EXCEPT !.status = "error"] ELSE c : c \in conns}

\* "Update connection last_sync_at"
MarkSynced(conns, id) ==
    {IF c.id = id THEN [c EXCEPT !.last_sync_at = now] ELSE c : c \in conns}

\* repo.default_branch as the provider reports it: master for r2
defaultBranch(fullName) == IF fullName = "r2" THEN "master" ELSE "main"

\* repoData: default_branch: repo.default_branch || "main"; selected is not
\* among its fields
RepoRow(connectionId, n, selected) ==
    [connection_id |-> connectionId, provider_repo_id |-> n,
     default_branch |-> defaultBranch(n), selected |-> selected]

\* the loop left at the first upsert that fails
UpsertRepos_stopAtFailure(rs, connectionId, listed, failed) ==
    IF failed = {} THEN rs \cup {RepoRow(connectionId, n, FALSE) :
                                    n \in {m \in listed :
                                             \A r \in rs :
                                                ~(r.connection_id = connectionId
                                                  /\ r.provider_repo_id = m)}}
    ELSE rs

\* .upsert(repoData, { onConflict: "connection_id,provider_repo_id" }) for
\* every listed repository whose upsert does not fail; selected is not in
\* repoData: an existing row keeps it, a new row gets the default false
UpsertRepos(rs, connectionId, listed, failed) ==
    rs \cup {RepoRow(connectionId, n, FALSE) :
               n \in {m \in listed \ failed :
                        \A r \in rs : ~(r.connection_id = connectionId
                                        /\ r.provider_repo_id = m)}}

\* octokit.repos.listBranches of a repository: r1 is an empty repository, r2
\* has the branches main and master
listBranches(fullName) == IF fullName = "r2" THEN {"main", "master"} ELSE {}

\* branchData: is_default: branch.name === "main" || branch.name === "master"
BranchRow(repoId, name) ==
    [repo_id |-> repoId, name |-> name,
     is_default |-> (name = "main" \/ name = "master")]

\* syncBranches for every repository in synced: .upsert(branchData,
\* { onConflict: "repo_id,name" }) for each of its branches
syncBranches(bs, connectionId, synced) ==
    bs \cup UNION {{BranchRow(<<connectionId, n>>, b) :
                      b \in listBranches(n)} : n \in synced}

\* the try block of syncRepos run to its end: the listing returns the
\* provider's repositories, of which the upserts of failed fail (continue)
\* and, of the upserted ones, the syncs of the branches of branchFailed fail
\* (caught inside syncBranches); a is the outcome of the audit insert
syncReposDone(conns, rs, audit, connectionId, userId, failed, branchFailed, a) ==
    [conns |-> IF AuditRaises(a)
               THEN MarkError(MarkSynced(conns, connectionId), connectionId)
               ELSE MarkSynced(conns, connectionId),
     repos |-> UpsertRepos(rs, connectionId, github_repos, failed),
     branches |-> syncBranches(branches, connectionId,
                               (github_repos \ failed) \ branchFailed),
     audit |-> logAuditEvent(audit, userId, "SYNC", connectionId, NULL, a)]

\* syncRepos(connectionId, userId): the tables it can leave, either from its
\* catch block or from the end of its try block
syncRepos(conns, rs, audit, connectionId, userId) ==
    LET connection == MaybeSingle({c \in conns : c.id = connectionId})
        caught == [conns |-> MarkError(conns, connectionId), repos |-> rs,
                   branches |-> branches, audit |-> audit]
    IN  IF connection = NoRow \/ connection.installation_id = NULL
        THEN {caught}
        ELSE {caught} \cup
             {syncReposDone(conns, rs, audit, connectionId, userId, failed,
                            branchFailed, a)
                : failed \in SUBSET github_repos,
                  branchFailed \in SUBSET github_repos,
                  a \in AuditOutcomes(audit)}

\* POST /callback of git-connect: handleCallback behind the token check.
\* installFetch is the outcome of getGitHubAppClient / apps.getInstallation.
AppCallback(auth, projectId, installationId, installFetch, insertFails, auditOutcome) ==
    LET userId == validateAuth(auth)
        answer(status, reason) ==
            Response("git-connect", "app_callback", status, "json", reason)
        newId == Cardinality(provider_connections) + 1
        inserted ==
            provider_connections \cup
              {[id |-> newId, project_id |-> projectId, provider |-> "github",
                status |-> "active", installation_id |-> installationId,
                access_token_encrypted |-> NULL, created_by |-> userId,
                last_sync_at |-> NoTime]}
        logged == logAuditEvent(audit_events, userId, "CONNECT", newId, NULL,
                                auditOutcome)
    IN  /\ UNCHANGED <<succeeded, now, env, project_members, github_repos, project_repos, inflight, github_oauth_states, minted>>
        /\ IF userId = ""
           THEN /\ response' = answer(401, "Unauthorized")
                /\ UNCHANGED <<provider_connections, repos, branches, audit_events>>
           ELSE IF projectId = NULL \/ installationId = NULL
           THEN /\ response' = answer(400, "projectId and installationId are required")
                /\ UNCHANGED <<provider_connections, repos, branches, audit_events>>
           ELSE IF ~canConnectGit(userId, projectId)
           THEN /\ response' = answer(403, "Forbidden")
                /\ UNCHANGED <<provider_connections, repos, branches, audit_events>>
           ELSE IF installFetch = "throw"
           THEN /\ response' = answer(500, "Failed to process callback")
                /\ UNCHANGED <<provider_connections, repos, branches, audit_events>>
           ELSE IF insertFails
           THEN /\ response' = answer(500, "Failed to create connection")
                /\ UNCHANGED <<provider_connections, repos, branches, audit_events>>
           ELSE IF AuditRaises(auditOutcome)
           THEN /\ newId <= MaxConnections
                /\ provider_connections' = inserted
                /\ response' = answer(500, "Failed to process callback")
                /\ UNCHANGED <<repos, branches, audit_events>>
           ELSE /\ newId <= MaxConnections
                /\ \E o \in syncRepos(inserted, repos, logged, newId, userId) :
                      /\ provider_connections' = o.conns
                      /\ repos' = o.repos
                      /\ branches' = o.branches
                      /\ audit_events' = o.audit
                /\ response' = [answer(200, NULL) EXCEPT !.value = newId]

\* POST /sync of git-connect: handleSync behind the token check
Sync(auth, connectionId, repoId) ==
    LET userId == validateAuth(auth)
        answer(status, reason) ==
            Response("git-connect", "sync", status, "json", reason)
        repo == MaybeSingle({r \in repos : <<r.connection_id, r.provider_repo_id>> = repoId})
    IN  /\ UNCHANGED <<succeeded, now, env, project_members, github_repos, project_repos, inflight, github_oauth_states, minted>>
        /\ IF userId = ""
           THEN /\ response' = answer(401, "Unauthorized")
                /\ UNCHANGED <<provider_connections, repos, branches, audit_events>>
           ELSE IF connectionId = NoId /\ repoId = <<NoId, NULL>>
           THEN /\ response' = answer(400, "connectionId or repoId is required")
                /\ UNCHANGED <<provider_connections, repos, branches, audit_events>>
           ELSE /\ response' = answer(200, NULL)
                /\ IF connectionId # NoId \/ repo # NoRow
                   THEN \E o \in syncRepos(provider_connections, repos, audit_events,
                                           IF connectionId # NoId THEN connectionId
                                           ELSE repo.connection_id, userId) :
                           /\ provider_connections' = o.conns
                           /\ repos' = o.repos
                           /\ branches' = o.branches
                           /\ audit_events' = o.audit
                   ELSE UNCHANGED <<provider_connections, repos, branches, audit_events>>

\* DELETE /connections/:id of git-connect: handleDeleteConnection behind the
\* token check
DeleteConnection(auth, connectionId, updateFails, auditOutcome) ==
    LET userId == validateAuth(auth)
        answer(status, reason) ==
            Response("git-connect", "delete_connection", status, "json", reason)
        connection == MaybeSingle({c \in provider_connections : c.id = connectionId})
    IN  /\ UNCHANGED <<succeeded, now, env, project_members, github_repos, project_repos, inflight, branches, github_oauth_states, minted, repos>>
        /\ IF userId = ""
           THEN /\ response' = answer(401, "Unauthorized")
                /\ UNCHANGED <<provider_connections, audit_events>>
           ELSE IF connection = NoRow
           THEN /\ response' = answer(404, "Connection not found")
                /\ UNCHANGED <<provider_connections, audit_events>>
           ELSE IF ~canConnectGit(userId, connection.project_id)
           THEN /\ response' = answer(403, "Forbidden")
                /\ UNCHANGED <<provider_connections, audit_events>>
           ELSE IF updateFails
           THEN /\ response' = answer(500, "Failed to revoke connection")
                /\ UNCHANGED <<provider_connections, audit_events>>
           ELSE /\ provider_connections' = MarkRevoked(provider_connections, connectionId)
                /\ audit_events' = logAuditEvent(audit_events, userId, "CONNECT",
                                                 connectionId, "revoked", auditOutcome)
                /\ response' = IF AuditRaises(auditOutcome)
                               THEN answer(500, "Internal server error")
                               ELSE [answer(200, NULL) EXCEPT !.value = connectionId]

(* ------------------- POST /select of github-repos ---------------------- *)
\* The function is not among the sources; only its caller useSelectRepos
\* is.  A project admin marks a repository of the project's active github
\* connection as selected.
SelectRepos(auth, projectId, name) ==
    LET userId == validateAuth(auth)
        connection ==
            MaybeSingle({c \in provider_connections :
                           c.project_id = projectId /\ c.provider = "github"
                           /\ c.status = "active"})
        row == RepoRow(connection.id, name, TRUE)
    IN  /\ userId # ""
        /\ canConnectGit(userId, projectId)
        /\ connection # NoRow
        /\ repos' = {r \in repos : ~(r.connection_id = connection.id
                                      /\ r.provider_repo_id = name)} \cup {row}
        /\ response' = Response("github-repos", "select_repos", 200, "json", NULL)
        /\ UNCHANGED <<succeeded, now, env, project_members, github_repos, project_repos, inflight, branches, github_oauth_states, minted,
                       provider_connections, audit_events>>

(* ------------------ the serve handlers of the functions ---------------- *)
\* the functions whose routes are behind the token check
Functions == {"git-links", "github-oauth", "git-connect", "git-repos", "github-pulls"}

\* if (req.method === "OPTIONS") return new Response(null, { headers }): the
\* first statement of every serve handler, before the token is looked at
Preflight(fn) ==
    /\ response' = [Response(fn, "preflight", 200, "empty", NULL) EXCEPT
                      !.method = "OPTIONS"]
    /\ UNCHANGED <<now, env, project_members, github_oauth_states, minted,
                   provider_connections, repos, github_repos, project_repos, inflight, branches, audit_events,
                   succeeded, tarefas, tarefa_git_links, args, runs>>

\* the statuses a GET handler answers with once the token is accepted
ReadStatuses == {200, 404}

\* a GET route of a function (GET /tarefas/:id, GET /connection, GET
\* /connections, the routes of git-repos and github-pulls): the token check
\* of the serve handler, then a handler that only reads the store
ReadRoute(fn, auth, status) ==
    /\ response' = [Response(fn, "read",
                             IF validateAuth(auth) = "" THEN 401 ELSE status, "json",
                             IF validateAuth(auth) = "" THEN "Unauthorized" ELSE NULL)
                      EXCEPT !.method = "GET"]
    /\ UNCHANGED <<now, env, project_members, github_oauth_states, minted,
                   provider_connections, repos, github_repos, project_repos, inflight, branches, audit_events,
                   succeeded, tarefas, tarefa_git_links, args, runs>>

(* ----------------------- read routes of git-repos ---------------------- *)
\* GET /:repoId/overview, /tree, /blob, /branches, /commits, /commits/:sha
RepoRoutes == {"overview", "tree", "blob", "branches", "commits", "commit"}

\* the routes that build a provider client
ProviderRoutes == RepoRoutes \ {"branches"}

\* the repository ids a request can name
RepoIds == (1..MaxConnections) \X ProviderRepos

\* the routes whose handler looks the caller up in project_members: only
\* handleGetRepoOverview does ("Check permissions"); handleGetTree,
\* handleGetBlob, handleGetCommits and handleGetCommitDetail go from the
\* repos row to the connection, handleGetBranches reads branches directly
Checked(route) == route = "overview"

\* what a provider route answers once it has the connection: getGitHubClient
\* throws without an installation id, the provider call throws, getContent
\* of /blob returns a directory, or the data comes back
Fetched(route, connection, fetch) ==
    IF connection.installation_id = NULL \/ fetch = "throw"
    THEN [status |-> 500, reason |-> "Failed to fetch"]
    ELSE IF route = "blob" /\ fetch = "dir"
    THEN [status |-> 400, reason |-> "Not a file"]
    ELSE [status |-> 200, reason |-> NULL]

\* a read route of git-repos behind the token check of the serve handler.
\* pathGiven: the query has a path; fetch: the outcome of the provider call,
\* for /branches of the select on the table branches
RepoRead(route, auth, repoId, pathGiven, fetch) ==
    LET userId == validateAuth(auth)
        answer(status, reason) ==
            [Response("git-repos", route, status, "json", reason) EXCEPT
               !.method = "GET"]
        repo == MaybeSingle({r \in repos :
                               <<r.connection_id, r.provider_repo_id>> = repoId})
        projectRepo == MaybeSingle({l \in project_repos : l.repo_id = repoId})
        member == MaybeSingle({m \in project_members :
                                 /\ m.project_id = projectRepo.project_id
                                 /\ m.user_id = userId})
        connection == MaybeSingle({c \in provider_connections :
                                     c.id = repo.connection_id})
        fetched == Fetched(route, connection, fetch)
    IN  /\ response' =
              IF userId = "" THEN answer(401, "Unauthorized")
              ELSE IF route = "branches"
              THEN IF fetch = "throw" THEN answer(500, "Failed to fetch branches")
                   ELSE answer(200, NULL)
              ELSE IF route = "blob" /\ ~pathGiven
              THEN answer(400, "path is required")
              ELSE IF repo = NoRow THEN answer(404, "Repository not found")
              ELSE IF Checked(route) /\ projectRepo = NoRow
              THEN answer(404, "Repository not linked to project")
              ELSE IF Checked(route) /\ member = NoRow THEN answer(403, "Forbidden")
              ELSE IF connection = NoRow
                      \/ (route = "overview" /\ connection.installation_id = NULL)
              THEN answer(404, "Connection not found")
              ELSE answer(fetched.status, fetched.reason)
        /\ UNCHANGED <<now, env, project_members, github_oauth_states, minted,
                       provider_connections, repos, github_repos, project_repos,
                       inflight, branches, audit_events, succeeded, tarefas,
                       tarefa_git_links, args, runs>>

(* ------------------------------ withRetry ------------------------------ *)
\* the defaults of the parameters: maxRetries = 3, delay = 1000
DefaultMaxRetries == 3
DefaultDelay == 1000

\* a value without a status property
NoStatus == 0

\* A value fn rejects with: an Error instance (with or without a status
\* property), an object that is not an Error, or a string.  origin is the
\* call that rejected with it, and 0 for an Error that withRetry constructs.
Rejections(call) ==
    [kind : {"Error", "object"}, status : {NoStatus, 403, 429, 500},
     message : {"failed"}, origin : {call}]
    \cup [kind : {"string"}, status : {NoStatus}, message : {"failed"},
          origin : {call}]

\* the value of a call that resolves
Resolved(call) ==
    [kind |-> "value", status |-> NoStatus, message |-> "ok", origin |-> call]

\* let lastError: Error | null = null
NoError == [kind |-> "null", status |-> NoStatus, message |-> NULL, origin |-> 0]

\* String(error)
String(error) ==
    IF error.kind = "object" THEN "[object Object]" ELSE error.message

\* error instanceof Error ? error : new Error(String(error))
AsError(error) ==
    IF error.kind = "Error" THEN error
    ELSE [kind |-> "Error", status |-> NoStatus, message |-> String(error),
          origin |-> 0]

\* every status counted as a rate limit
IsRateLimit_anyStatus(error) ==
    /\ error.kind \in {"Error", "object"}
    /\ error.status # NoStatus

\* error && typeof error === 'object' && 'status' in error
\*   && (status === 403 || status === 429)
IsRateLimit(error) ==
    /\ error.kind \in {"Error", "object"}
    /\ error.status # NoStatus
    /\ error.status = 403 \/ error.status = 429

\* the loop running one time more
LoopCondition_inclusive(n, max) == n <= max

\* for (let i = 0; i < maxRetries; i++)
LoopCondition(n, max) == n < max

\* try { return await fn() } catch (error) { ... }: one iteration up to its
\* return, its throw or its timeout
RetryCall(outcome) ==
    /\ pc = "loop"
    /\ LoopCondition(i, maxRetries)
    /\ calls' = calls + 1
    /\ IF outcome.kind = "value"
       THEN /\ pc' = "returned"
            /\ returned' = outcome
            /\ UNCHANGED <<lastError, thrown, raised>>
       ELSE /\ thrown' = Append(thrown, outcome)
            /\ lastError' = AsError(outcome)
            /\ UNCHANGED returned
            /\ IF IsRateLimit(outcome)
               THEN pc' = "waiting" /\ UNCHANGED raised
               ELSE pc' = "raised" /\ raised' = lastError'
    /\ UNCHANGED <<maxRetries, delay, i, waits, storeVars, detectVars, linkVars>>

\* the same wait after every failure
WaitTime_constant(d, n) == d

\* delay * (i + 1)
WaitTime(d, n) == d * (n + 1)

\* await new Promise(resolve => setTimeout(resolve, delay * (i + 1))); continue
RetryWait ==
    /\ pc = "waiting"
    /\ waits' = Append(waits, WaitTime(delay, i))
    /\ i' = i + 1
    /\ pc' = "loop"
    /\ UNCHANGED <<maxRetries, delay, lastError, calls, thrown, raised, returned, storeVars,
                   detectVars, linkVars>>

\* throw lastError || new Error("Max retries exceeded")
RetryExhausted ==
    /\ pc = "loop"
    /\ ~LoopCondition(i, maxRetries)
    /\ raised' = IF lastError = NoError
                 THEN [kind |-> "Error", status |-> NoStatus,
                       message |-> "Max retries exceeded", origin |-> 0]
                 ELSE lastError
    /\ pc' = "raised"
    /\ UNCHANGED <<maxRetries, delay, i, lastError, calls, thrown, waits, returned, storeVars,
                   detectVars, linkVars>>

\* no invocation of withRetry in progress
RetryIdle ==
    /\ maxRetries = DefaultMaxRetries
    /\ delay = DefaultDelay
    /\ i = 0
    /\ lastError = NoError
    /\ pc = "idle"
    /\ calls = 0
    /\ thrown = <<>>
    /\ waits = <<>>
    /\ raised = NoError
    /\ returned = NoError

(* -------------------------- detectTarefaKeys --------------------------- *)
\* the characters of the texts: letters of both cases, a digit, the hyphen
\* and a blank
Upper(c) ==
    CASE c = "t" -> "T" [] c = "s" -> "S" [] c = "k" -> "K" [] c = "a" -> "A"
      [] OTHER -> c

\* [A-Z0-9] under the flag i
IsAlnum(c) == Upper(c) \in {"T", "S", "K", "A", "7"}

\* [A-Z0-9]+ tried at position p: the position after the longest run,
\* p itself when there is none
RECURSIVE RunEnd(_, _)
RunEnd(str, p) ==
    IF p <= Len(str) /\ IsAlnum(str[p]) THEN RunEnd(str, p + 1) ELSE p

\* (?:-[A-Z0-9]+)* tried at position p: the position after the last group
RECURSIVE GroupsEnd(_, _)
GroupsEnd(str, p) ==
    IF p + 1 <= Len(str) /\ str[p] = "-" /\ IsAlnum(str[p + 1])
    THEN GroupsEnd(str, RunEnd(str, p + 1))
    ELSE p

\* the literal without the flag i
PrefixAt_caseSensitive(str, p) ==
    /\ p + 3 <= Len(str)
    /\ SubSeq(str, p, p + 3) = <<"T", "S", "K", "-">>

\* the literal TSK- under the flag i at position p
PrefixAt(str, p) ==
    /\ p + 3 <= Len(str)
    /\ Upper(str[p]) = "T"
    /\ Upper(str[p + 1]) = "S"
    /\ Upper(str[p + 2]) = "K"
    /\ str[p + 3] = "-"

\* the regex tried at position p: the position after the match, 0 when it
\* does not match there
MatchEnd(str, p) ==
    IF PrefixAt(str, p) /\ RunEnd(str, p + 4) > p + 4
    THEN GroupsEnd(str, RunEnd(str, p + 4))
    ELSE 0

\* text.matchAll(regex) from lastIndex p: the captures match[1], in order
RECURSIVE matchAll(_, _)
matchAll(str, p) ==
    IF p > Len(str) THEN <<>>
    ELSE LET e == MatchEnd(str, p)
         IN  IF e = 0 THEN matchAll(str, p + 1)
             ELSE <<SubSeq(str, p + 4, e - 1)>> \o matchAll(str, e)

\* keys.add(fullKey) on a Set, which keeps insertion order
SetAdd(set, fullKey) ==
    IF \E k \in 1..Len(set) : set[k] = fullKey THEN set ELSE Append(set, fullKey)

\* for (const match of matches) keys.add(`TSK-${match[1]}`)
RECURSIVE AddKeys(_, _)
AddKeys(set, matches) ==
    IF matches = <<>> THEN set
    ELSE AddKeys(SetAdd(set, <<"T", "S", "K", "-">> \o Head(matches)),
                 Tail(matches))

detectTarefaKeys(str) ==
    IF str = <<>> THEN <<>> ELSE AddKeys(<<>>, matchAll(str, 1))

Detect ==
    /\ ~detected
    /\ keys' = detectTarefaKeys(text)
    /\ detected' = TRUE
    /\ UNCHANGED <<text, storeVars, retryVars, linkVars>>

\* no call of detectTarefaKeys
DetectIdle ==
    /\ text = <<>>
    /\ detected = FALSE
    /\ keys = <<>>

\* the pieces the texts are made of
Tokens ==
    {<<"T", "S", "K", "-">>, <<"T", "S", "K", "-", "7">>,
     <<"t", "s", "k", "-", "7">>, <<"a">>, <<"-">>, <<" ">>}

RECURSIVE Texts(_)
Texts(n) ==
    IF n = 0 THEN {<<>>}
    ELSE LET shorter == Texts(n - 1)
         IN  shorter \cup {t \o tok : t \in shorter, tok \in Tokens}

(* --------------------------- createAutoLinks --------------------------- *)
\* an absent prNumber, a pr_number that is null
NoNumber == 0

\* .from("tarefa_git_links").select("id").match(existingLinkQuery): a field
\* of the metadata constrains the rows only when it is truthy
MatchingLinks(links, tarefaId, metadata) ==
    {l \in links :
       /\ l.tarefa_id = tarefaId
       /\ l.provider = "github"
       /\ metadata.branchName # NULL => l.branch = metadata.branchName
       /\ metadata.commitSha # NULL => l.commit_sha = metadata.commitSha
       /\ metadata.prNumber # NoNumber => l.pr_number = metadata.prNumber}

\* the rows with the tuple (tarefa_id, provider, branch, commit_sha,
\* pr_number) of row
SameTuple(links, row) ==
    {l \in links :
       /\ l.tarefa_id = row.tarefa_id
       /\ l.provider = row.provider
       /\ l.branch = row.branch
       /\ l.commit_sha = row.commit_sha
       /\ l.pr_number = row.pr_number}

\* .insert(linkData), whose result the code discards: the tables it can
\* leave.  The store gives the row its id.  The table has the unique index
\* that the onConflict of git-links names; its definition is not among the
\* sources.  It rejects a tuple that is stored already when no column of
\* the tuple is null; with a null column the row is stored when the index
\* counts nulls as distinct (the default) and rejected when it does not.
InsertLink(links, tarefaId, metadata) ==
    LET row == [id |-> Cardinality(links) + 1, tarefa_id |-> tarefaId,
                provider |-> "github", branch |-> metadata.branchName,
                commit_sha |-> metadata.commitSha,
                pr_number |-> metadata.prNumber, auto_linked |-> TRUE]
        hasNull == \/ row.branch = NULL
                   \/ row.commit_sha = NULL
                   \/ row.pr_number = NoNumber
    IN  IF SameTuple(links, row) = {} THEN {links \cup {row}}
        ELSE IF hasNull THEN {links \cup {row}, links}
        ELSE {links}

\* the body of the loop without .maybeSingle(): a row is found when any
\* row matches
LinkTarefa_anyRow(links, tarefaId, metadata) ==
    IF MatchingLinks(links, tarefaId, metadata) # {}
    THEN {links}
    ELSE InsertLink(links, tarefaId, metadata)

\* the body of the loop for one tarefa: the tables it can leave
LinkTarefa(links, tarefaId, metadata) ==
    LET existing == MaybeSingle(MatchingLinks(links, tarefaId, metadata))
    IN  IF existing # NoRow THEN {links} ELSE InsertLink(links, tarefaId, metadata)

\* for (const tarefa of tarefas) { ... }, from each of the tables
RECURSIVE LinkEach(_, _, _)
LinkEach(tables, found, metadata) ==
    IF found = {} THEN tables
    ELSE LET tarefa == CHOOSE t \in found : \A u \in found : t.id <= u.id
         IN  LinkEach(UNION {LinkTarefa(links, tarefa.id, metadata) :
                               links \in tables},
                      found \ {tarefa}, metadata)

\* the lookup without its filter on the project
FoundTarefas_anyProject(tarefaKeys, projectId) ==
    {t \in tarefas : t.key \in tarefaKeys}

\* .from("tarefas").select("id, key").eq("project_id", projectId)
\*   .in("key", tarefaKeys)
FoundTarefas(tarefaKeys, projectId) ==
    {t \in tarefas : t.project_id = projectId /\ t.key \in tarefaKeys}

\* createAutoLinks: the tables it can leave
createAutoLinks(links, tarefaKeys, projectId, metadata) ==
    IF tarefaKeys = {} THEN {links}
    ELSE LinkEach({links}, FoundTarefas(tarefaKeys, projectId), metadata)

AutoLink ==
    /\ runs < MaxRuns
    /\ tarefa_git_links' \in
         createAutoLinks(tarefa_git_links, args.tarefaKeys, args.projectId,
                         args.metadata)
    /\ runs' = runs + 1
    /\ UNCHANGED <<tarefas, args, storeVars, retryVars, detectVars>>

\* the tarefas of two projects; a key is unique within its project
Tarefas ==
    {[id |-> 1, project_id |-> "p1", key |-> "TSK-1"],
     [id |-> 2, project_id |-> "p1", key |-> "TSK-2"],
     [id |-> 3, project_id |-> "p2", key |-> "TSK-1"]}

Metadata ==
    [branchName : {NULL, "b1"}, commitSha : {NULL, "s1"},
     prNumber : {NoNumber, 42}]

\* no call of createAutoLinks
LinksIdle ==
    /\ tarefas = Tarefas
    /\ tarefa_git_links = {}
    /\ args = [tarefaKeys |-> {}, projectId |-> "p1",
               metadata |-> [branchName |-> NULL, commitSha |-> NULL,
                             prNumber |-> NoNumber]]
    /\ runs = 0

\* links made through POST / of git-links before the first run
ManualLinks ==
    [tarefa_id : {1, 2}, branch : {NULL, "b1", "b2"}, pr_number : {NoNumber, 42}]

\* the tables of up to n manual links
RECURSIVE LinkTables(_)
LinkTables(n) ==
    IF n = 0 THEN {{}}
    ELSE LET smaller == LinkTables(n - 1)
         IN  smaller \cup
             {t \cup {[id |-> Cardinality(t) + 1, tarefa_id |-> m.tarefa_id,
                       provider |-> "github", branch |-> m.branch,
                       commit_sha |-> NULL, pr_number |-> m.pr_number,
                       auto_linked |-> FALSE]} :
                t \in {u \in smaller : Cardinality(u) = n - 1}, m \in ManualLinks}

(* ------------------------ POST / of git-links -------------------------- *)
\* .upsert(linkData, { onConflict: "tarefa_id,provider,branch,commit_sha,
\* pr_number", ignoreDuplicates: false }): the tables it can leave.  A stored
\* row with the tuple of linkData is updated when no column of the tuple is
\* null; with a null column the unique index finds the conflict, and the row
\* is updated, when it counts nulls as equal, and a second row is stored
\* when it counts them as distinct (the default).
UpsertLink(links, linkData) ==
    LET row == [linkData EXCEPT !.id = Cardinality(links) + 1]
        conflicting == SameTuple(links, row)
        hasNull == \/ row.branch = NULL
                   \/ row.commit_sha = NULL
                   \/ row.pr_number = NoNumber
        updated == {IF l \in conflicting THEN [l EXCEPT !.auto_linked = FALSE]
                    ELSE l : l \in links}
    IN  IF conflicting = {} THEN {links \cup {row}}
        ELSE IF hasNull THEN {links \cup {row}, updated}
        ELSE {updated}

\* handleCreateLink behind the token check of the git-links serve handler;
\* a field of the body that is absent or falsy is stored as null
CreateLink(auth, tarefaId, branchName, commitSha, prNumber, upsertFails) ==
    LET userId == validateAuth(auth)
        answer(status, reason) ==
            Response("git-links", "create_link", status, "json", reason)
        tarefa == MaybeSingle({t \in tarefas : t.id = tarefaId})
        member == MaybeSingle({m \in project_members :
                                 m.project_id = tarefa.project_id
                                 /\ m.user_id = userId})
        linkData == [id |-> NoId, tarefa_id |-> tarefaId, provider |-> "github",
                     branch |-> branchName, commit_sha |-> commitSha,
                     pr_number |-> prNumber, auto_linked |-> FALSE]
    IN  /\ UNCHANGED <<now, env, project_members, github_oauth_states, minted,
                       provider_connections, repos, github_repos, project_repos, inflight, branches, audit_events,
                       succeeded, tarefas, args, runs>>
        /\ IF userId = ""
           THEN /\ response' = answer(401, "Unauthorized")
                /\ UNCHANGED tarefa_git_links
           ELSE IF tarefaId = NoId
           THEN /\ response' = answer(400, "tarefaId is required")
                /\ UNCHANGED tarefa_git_links
           ELSE IF tarefa = NoRow
           THEN /\ response' = answer(404, "Tarefa not found")
                /\ UNCHANGED tarefa_git_links
           ELSE IF member = NoRow
                   \/ member.role \notin {"admin", "tech_lead", "developer"}
           THEN /\ response' = answer(403, "Forbidden")
                /\ UNCHANGED tarefa_git_links
           ELSE IF upsertFails
           THEN /\ response' = answer(500, "Failed to create link")
                /\ UNCHANGED tarefa_git_links
           ELSE /\ tarefa_git_links' \in UpsertLink(tarefa_git_links, linkData)
                /\ response' = answer(200, NULL)

\* createAutoLinks called with the arguments a
AutoLinkWith(a) ==
    /\ runs < MaxRuns
    /\ args' = a
    /\ tarefa_git_links' \in
         createAutoLinks(tarefa_git_links, a.tarefaKeys, a.projectId, a.metadata)
    /\ runs' = runs + 1
    /\ UNCHANGED <<tarefas, storeVars, retryVars, detectVars>>

(* --------------------------- specification ----------------------------- *)
Callers == Users \cup {NULL}
ProjectArgs == Projects \cup {NULL}

\* one project with an admin and a developer
OneAdmin ==
    {[user_id |-> "u1", project_id |-> "p1", role |-> "admin"],
     [user_id |-> "u2", project_id |-> "p1", role |-> "developer"]}

\* two projects, each with its own admin; the admin of the second is a
\* developer in the first
TwoAdmins ==
    OneAdmin \cup {[user_id |-> "u2", project_id |-> "p2", role |-> "admin"]}

\* the store of a new deployment with the given members, and the
\* repositories the provider lists
InitStoreWith(members, provided) ==
    /\ now = 0
    /\ env \in EnvSettings
    /\ project_members = members
    /\ github_oauth_states = {}
    /\ minted = 0
    /\ provider_connections = {}
    /\ repos = {}
    /\ branches = {}
    /\ project_repos = {}
    /\ inflight = NoRequests
    /\ github_repos = provided
    /\ audit_events = <<>>
    /\ succeeded = {}
    /\ response = NoResponse

\* one repository on the provider side
InitStoreOf(members) == InitStoreWith(members, {"r1"})

InitStore == InitStoreOf(OneAdmin)

Init == InitStore /\ RetryIdle /\ DetectIdle /\ LinksIdle

\* the outcomes of the store and of the provider are drawn for the requests
\* that get as far as the calls they belong to
When(reached, outcomes, unused) == IF reached THEN outcomes ELSE {unused}

StartStep ==
    /\ \E auth \in Callers, p \in ProjectArgs :
          \E f \in When(canConnectGit(validateAuth(auth), p), BOOLEAN, FALSE) :
             OAuthStart(auth, p, f)
    /\ UNCHANGED <<retryVars, detectVars, linkVars>>

CallbackStep ==
    /\ \E fn \in CallbackFns, r \in CallbackRequests :
          OAuthCallback(fn, r.method, r.auth, r.code, r.state)
    /\ UNCHANGED <<retryVars, detectVars, linkVars>>

RevokeStep ==
    /\ \E auth \in Callers, p \in ProjectArgs :
          LET reached ==
                  /\ canConnectGit(validateAuth(auth), p)
                  /\ \E c \in provider_connections : c.project_id = p
              hasToken ==
                  \E c \in provider_connections :
                     c.project_id = p /\ c.access_token_encrypted # NULL
          IN  \E rf \in When(reached /\ hasToken, RevokeOutcomes, "ok"),
                 f \in When(reached, BOOLEAN, FALSE),
                 a \in When(reached, AuditOutcomes(audit_events), "error") :
                 OAuthRevoke(auth, p, rf, f, a)
    /\ UNCHANGED <<retryVars, detectVars, linkVars>>

AppCallbackStep ==
    /\ \E auth \in Callers, p \in ProjectArgs, inst \in Installations \cup {NULL} :
          LET reached == inst # NULL /\ canConnectGit(validateAuth(auth), p)
          IN  \E g \in When(reached, {"ok", "throw"}, "ok"),
                 f \in When(reached, BOOLEAN, FALSE),
                 a \in When(reached, AuditOutcomes(audit_events), "error") :
                 AppCallback(auth, p, inst, g, f, a)
    /\ UNCHANGED <<retryVars, detectVars, linkVars>>

\* the installation callback of a project that has no connection
FirstAppCallbackStep == provider_connections = {} /\ AppCallbackStep

SyncStep ==
    /\ \E auth \in Callers :
          \E c \in When(auth # NULL, 0..MaxConnections, NoId) :
             \E r \in When(auth # NULL /\ c = NoId,
                           ((1..MaxConnections) \X ProviderRepos)
                              \cup {<<NoId, NULL>>},
                           <<NoId, NULL>>) :
                Sync(auth, c, r)
    /\ UNCHANGED <<retryVars, detectVars, linkVars>>

DeleteStep ==
    /\ \E auth \in Callers, c \in 1..MaxConnections :
          LET reached ==
                  \E row \in provider_connections :
                     row.id = c /\ canConnectGit(validateAuth(auth), row.project_id)
          IN  \E f \in When(reached, BOOLEAN, FALSE),
                 a \in When(reached, AuditOutcomes(audit_events), "error") :
                 DeleteConnection(auth, c, f, a)
    /\ UNCHANGED <<retryVars, detectVars, linkVars>>

SelectStep ==
    /\ \E auth \in Callers, p \in Projects, n \in github_repos :
          SelectRepos(auth, p, n)
    /\ UNCHANGED <<retryVars, detectVars, linkVars>>

TickStep == Tick /\ UNCHANGED <<retryVars, detectVars, linkVars>>

CleanupStep == CleanupExpiredStates /\ UNCHANGED <<retryVars, detectVars, linkVars>>

\* the OAuth handshake and the life of the connections it creates
Next ==
    \/ StartStep
    \/ CallbackStep
    \/ RevokeStep
    \/ TickStep
    \/ CleanupStep

Spec == Init /\ [][Next]_vars

\* connections made by GitHub-App installation callbacks, their syncs, the
\* selection of their repositories and their revocation by either route
InitConnect == Init /\ CallbackConfigured

NextConnect ==
    \/ AppCallbackStep
    \/ SyncStep
    \/ RevokeStep
    \/ DeleteStep
    \/ SelectStep

SpecConnect == InitConnect /\ [][NextConnect]_vars

LookupStep ==
    /\ \E k \in Requests, fn \in CallbackFns, state \in 1..MaxStates :
          CallbackLookup(k, fn, state)
    /\ UNCHANGED <<retryVars, detectVars, linkVars>>

FinishStep ==
    /\ \E k \in Requests : CallbackFinish(k)
    /\ UNCHANGED <<retryVars, detectVars, linkVars>>

\* the handshake with two callback requests whose steps interleave
NextRace ==
    \/ StartStep
    \/ LookupStep
    \/ FinishStep
    \/ TickStep

SpecRace == InitConnect /\ [][NextRace]_vars

\* a connection of a provider with two repositories, and its syncs
InitSync ==
    /\ InitStoreWith(OneAdmin, ProviderRepos) /\ CallbackConfigured
    /\ RetryIdle /\ DetectIdle /\ LinksIdle

NextSync ==
    \/ FirstAppCallbackStep
    \/ SyncStep
    \/ TickStep

SpecSync == InitSync /\ [][NextSync]_vars

\* one invocation of withRetry, for every maxRetries up to MaxRetriesArg, the
\* default delay and a delay of 1, and every behaviour of fn
InitRetry ==
    /\ InitStore /\ CallbackConfigured /\ DetectIdle /\ LinksIdle
    /\ maxRetries \in 0..MaxRetriesArg
    /\ delay \in {1, DefaultDelay}
    /\ i = 0
    /\ lastError = NoError
    /\ pc = "loop"
    /\ calls = 0
    /\ thrown = <<>>
    /\ waits = <<>>
    /\ raised = NoError
    /\ returned = NoError

CallStep == \E outcome \in Rejections(calls + 1) \cup {Resolved(calls + 1)} :
               RetryCall(outcome)

NextRetry ==
    \/ CallStep
    \/ RetryWait
    \/ RetryExhausted

SpecRetry == InitRetry /\ [][NextRetry]_vars

\* every promise the invocation awaits settles: the call of fn returns or
\* throws, and the timer of a wait fires
SpecRetryFair == SpecRetry /\ WF_vars(NextRetry)

\* one call of detectTarefaKeys for every text of up to MaxTokens tokens
InitDetect ==
    /\ InitStore /\ CallbackConfigured /\ RetryIdle /\ LinksIdle
    /\ text \in Texts(MaxTokens)
    /\ detected = FALSE
    /\ keys = <<>>

NextDetect == Detect

SpecDetect == InitDetect /\ [][NextDetect]_vars

\* createAutoLinks called MaxRuns times with the same arguments, on every
\* table of up to MaxInitialLinks links
InitLinks ==
    /\ InitStore /\ CallbackConfigured /\ RetryIdle /\ DetectIdle
    /\ tarefas = Tarefas
    /\ tarefa_git_links \in LinkTables(MaxInitialLinks)
    /\ args \in [tarefaKeys : {{}, {"TSK-1"}, {"TSK-1", "TSK-2"}, {"TSK-1", "TSK-9"}},
                 projectId : Projects, metadata : Metadata]
    /\ runs = 0

NextLinks == AutoLink

SpecLinks == InitLinks /\ [][NextLinks]_vars

\* the elements of an array
Elements(array) == {array[k] : k \in 1..Len(array)}

\* processAutoLink(text, projectId, ...): detectTarefaKeys, then
\* createAutoLinks with the keys when there is any; it returns the keys
ProcessAutoLink ==
    /\ runs < MaxRuns
    /\ keys' = detectTarefaKeys(text)
    /\ detected' = TRUE
    /\ tarefa_git_links' \in
         (IF Len(keys') > 0
          THEN createAutoLinks(tarefa_git_links, Elements(keys'), args.projectId,
                               args.metadata)
          ELSE {tarefa_git_links})
    /\ runs' = runs + 1
    /\ UNCHANGED <<text, tarefas, args, storeVars, retryVars>>

\* the tarefas of two projects, with their keys as the characters they are
\* stored with (upper case)
KeyedTarefas ==
    {[id |-> 1, project_id |-> "p1", key |-> <<"T", "S", "K", "-", "A", "-", "7">>],
     [id |-> 2, project_id |-> "p1", key |-> <<"T", "S", "K", "-", "7">>],
     [id |-> 3, project_id |-> "p2", key |-> <<"T", "S", "K", "-", "A", "-", "7">>]}

\* the pieces of the texts given to processAutoLink: keys in upper and in
\* lower case, a word and a blank
Pieces ==
    {<<"T", "S", "K", "-", "A", "-", "7">>, <<"t", "s", "k", "-", "a", "-", "7">>,
     <<"T", "S", "K", "-", "7">>, <<"t", "s", "k", "-", "7">>, <<"a">>, <<" ">>}

RECURSIVE Mentions(_)
Mentions(n) ==
    IF n = 0 THEN {<<>>}
    ELSE LET shorter == Mentions(n - 1)
         IN  shorter \cup {t \o piece : t \in shorter, piece \in Pieces}

\* processAutoLink called MaxRuns times on every text of up to MaxPieces
\* pieces, for either project
InitProcess ==
    /\ InitStore /\ CallbackConfigured /\ RetryIdle
    /\ text \in Mentions(MaxPieces)
    /\ detected = FALSE
    /\ keys = <<>>
    /\ tarefas = KeyedTarefas
    /\ tarefa_git_links = {}
    /\ args \in [tarefaKeys : {{}}, projectId : Projects, metadata : Metadata]
    /\ runs = 0

SpecProcess == InitProcess /\ [][ProcessAutoLink]_vars

\* manual links and auto-link runs on the same table, which is empty at
\* first and holds up to MaxLinks rows
CreateLinkStep ==
    /\ Cardinality(tarefa_git_links) < MaxLinks
    /\ \E auth \in Callers, t \in {NoId, 1, 3, 9}, b \in {NULL, "b1"},
          n \in {NoNumber, 42} :
          \E f \in When(auth # NULL /\ t = 1, BOOLEAN, FALSE) :
             CreateLink(auth, t, b, NULL, n, f)
    /\ UNCHANGED <<retryVars, detectVars>>

AutoLinkStep ==
    /\ Cardinality(tarefa_git_links) < MaxLinks
    /\ \E a \in [tarefaKeys : {{"TSK-1"}}, projectId : {"p1"},
                 metadata : [branchName : {NULL, "b1"}, commitSha : {NULL},
                             prNumber : {NoNumber, 42}]] :
          AutoLinkWith(a)

NextDedup ==
    \/ CreateLinkStep
    \/ AutoLinkStep

InitDedup == Init /\ CallbackConfigured

SpecDedup == InitDedup /\ [][NextDedup]_vars

\* the OAuth handshake in a deployment with two projects, each with its own
\* admin
InitAttribution ==
    /\ InitStoreOf(TwoAdmins) /\ CallbackConfigured
    /\ RetryIdle /\ DetectIdle /\ LinksIdle

NextAttribution ==
    \/ StartStep
    \/ CallbackStep

SpecAttribution == InitAttribution /\ [][NextAttribution]_vars

\* connections made by installation callbacks and by OAuth callbacks for
\* the same project
NextUpsert ==
    \/ AppCallbackStep
    \/ StartStep
    \/ CallbackStep

SpecUpsert == InitConnect /\ [][NextUpsert]_vars

\* every operation that writes the audit log, on one connection: the
\* installation callback of a project that has no connection, syncs, the
\* OAuth handshake and revocations
NextAudit ==
    \/ FirstAppCallbackStep
    \/ SyncStep
    \/ StartStep
    \/ CallbackStep
    \/ RevokeStep

SpecAudit == InitConnect /\ [][NextAudit]_vars

\* every authenticated route, on one connection and one link
PreflightStep ==
    /\ \E fn \in Functions : Preflight(fn)
    /\ UNCHANGED <<retryVars, detectVars>>

ReadStep ==
    /\ \E fn \in Functions, auth \in Callers :
          \E status \in When(auth # NULL, ReadStatuses, 401) :
             ReadRoute(fn, auth, status)
    /\ UNCHANGED <<retryVars, detectVars>>

RepoReadStep ==
    /\ \E route \in RepoRoutes, auth \in Callers :
          \E repoId \in When(auth # NULL, RepoIds, <<1, "r1">>),
             pathGiven \in When(auth # NULL /\ route = "blob", BOOLEAN, TRUE),
             fetch \in When(auth # NULL,
                            {"ok", "throw"}
                               \cup (IF route = "blob" THEN {"dir"} ELSE {}),
                            "ok") :
             RepoRead(route, auth, repoId, pathGiven, fetch)
    /\ UNCHANGED <<retryVars, detectVars>>

\* two projects, each with its own admin and no other member
SeparateAdmins ==
    {[user_id |-> "u1", project_id |-> "p1", role |-> "admin"],
     [user_id |-> "u2", project_id |-> "p2", role |-> "admin"]}

\* the first project has a connection made by an installation callback,
\* synced at time 0 with the provider's two repositories, and r2 is linked to
\* the project
InitRepos ==
    /\ now = 0
    /\ env \in EnvSettings
    /\ CallbackConfigured
    /\ project_members = SeparateAdmins
    /\ github_oauth_states = {}
    /\ minted = 0
    /\ provider_connections =
          {[id |-> 1, project_id |-> "p1", provider |-> "github",
            status |-> "active", installation_id |-> "i1",
            access_token_encrypted |-> NULL, created_by |-> "u1",
            last_sync_at |-> 0]}
    /\ repos = {RepoRow(1, n, FALSE) : n \in ProviderRepos}
    /\ github_repos = ProviderRepos
    /\ branches = syncBranches({}, 1, ProviderRepos)
    /\ project_repos = {[project_id |-> "p1", repo_id |-> <<1, "r2">>]}
    /\ inflight = NoRequests
    /\ audit_events = <<>>
    /\ succeeded = {}
    /\ response = NoResponse
    /\ RetryIdle /\ DetectIdle /\ LinksIdle

\* the reads of the repositories, the syncs and the end of the connection
NextRepos ==
    \/ RepoReadStep
    \/ SyncStep
    \/ DeleteStep
    \/ TickStep

SpecRepos == InitRepos /\ [][NextRepos]_vars

\* the first link of the table
FirstLinkStep == tarefa_git_links = {} /\ CreateLinkStep

NextRoutes ==
    \/ PreflightStep
    \/ ReadStep
    \/ StartStep
    \/ RevokeStep
    \/ FirstAppCallbackStep
    \/ SyncStep
    \/ DeleteStep
    \/ FirstLinkStep

SpecRoutes == InitConnect /\ [][NextRoutes]_vars

(* ======================= the OAuth state token ========================= *)
\* a GET callback of fn with request r happens in this step
GetCallback(fn, r) ==
    /\ r.method = "GET"
    /\ response'.op = "oauth_callback"
    /\ response'.fn = fn
    /\ response'.method = r.method
    /\ response'.state = r.state
    /\ OAuthCallback(fn, r.method, r.auth, r.code, r.state)

\* ... and it carries a code and a state whose stored row has expired
ExpiredCallback(fn, r) ==
    /\ r.code # NULL
    /\ StateAtCall(r.state) = "expired"
    /\ GetCallback(fn, r)

\* C1 as stated: a callback that carries a code and a state whose stored
\* expires_at is not later than the current time leaves provider_connections
\* as it was and redirects with the reason 'Invalid or expired state'.
C1_AsStated ==
    [][\A fn \in CallbackFns, r \in CallbackRequests :
          ExpiredCallback(fn, r) =>
             /\ provider_connections' = provider_connections
             /\ response'.reason = "Invalid or expired state"]_vars

\* C1, amended: a callback that carries a code and a state whose stored
\* expires_at is not later than the current time leaves provider_connections
\* as it was; its redirect reason is 'Invalid or expired state' when the
\* three GitHub OAuth settings are set and 'GitHub OAuth not configured'
\* when one of them is missing.
C1_ExpiredStateRejected ==
    [][\A fn \in CallbackFns, r \in CallbackRequests :
          ExpiredCallback(fn, r) =>
             /\ provider_connections' = provider_connections
             /\ response'.status = 302
             /\ response'.reason = IF CallbackConfigured
                                   THEN "Invalid or expired state"
                                   ELSE "GitHub OAuth not configured"]_vars

\* a callback has answered 'Invalid or expired state' to a state that was
\* stored with expires_at equal to the current time
C1_Witness ==
    /\ response.op = "oauth_callback"
    /\ response.stateAtCall = "expired"
    /\ response.reason = "Invalid or expired state"
    /\ \E r \in github_oauth_states :
          r.state = response.state /\ r.expires_at = now

C3_AsStated ==
    [][\A fn \in CallbackFns, r \in CallbackRequests :
          (/\ r.code # NULL
           /\ CallbackConfigured
           /\ StateAtCall(r.state) = "valid"
           /\ GetCallback(fn, r)
           /\ response'.reason # "Invalid or expired state") =>
             \A row \in github_oauth_states' : row.state # r.state]_vars

(* ===================== the callback route's answer ===================== *)
\* the requests of the provider callback route: GET /callback of
\* github-oauth and every request of the github-oauth-callback function
OnCallbackRoute ==
    /\ response.op = "oauth_callback"
    /\ response.fn = "github-oauth-callback" \/ response.method = "GET"

\* C6 as stated: every request on the callback route is answered with a 302
\* redirect and never with a JSON body.
C6_AsStated ==
    OnCallbackRoute => response.status = 302 /\ response.kind = "redirect"

\* C6, amended: every GET request on the callback route is answered with a
\* 302 redirect; the github-oauth-callback function answers OPTIONS with an
\* empty 200 and any other method with the JSON error 405 'Method not
\* allowed'.
C6_GetAlwaysRedirects ==
    OnCallbackRoute =>
       CASE response.method = "GET" ->
               response.status = 302 /\ response.kind = "redirect"
         [] response.method = "OPTIONS" ->
               response.status = 200 /\ response.kind = "empty"
         [] OTHER ->
               /\ response.status = 405
               /\ response.kind = "json"
               /\ response.reason = "Method not allowed"

\* a GET callback whose handler threw was answered with a redirect
C6_Witness ==
    /\ OnCallbackRoute
    /\ response.method = "GET"
    /\ response.reason = ThrownReason(response.fn)
    /\ response.status = 302

(* ========================== the connections ============================ *)
ActiveConnections(projectId, provider) ==
    {c \in provider_connections :
       c.project_id = projectId /\ c.provider = provider /\ c.status = "active"}

\* C4 as stated: every (project, provider) pair has at most one provider
\* connection whose status is active.
C4_AsStated ==
    \A p \in Projects : Cardinality(ActiveConnections(p, "github")) <= 1

\* a revocation request is answered in this step with success, by POST
\* /connection/revoke of github-oauth or DELETE /connections/:id of
\* git-connect
RevocationSucceeds ==
    /\ response'.op \in {"oauth_revoke", "delete_connection"}
    /\ response'.status = 200
    /\ RevokeStep \/ DeleteStep

\* C5 as stated: when a revocation request succeeds, the connection's status
\* is revoked and every repository of that connection has selected = false.
C5_AsStated ==
    [][RevocationSucceeds =>
         /\ \A c \in provider_connections' :
               c.id = response'.value => c.status = "revoked"
         /\ \A r \in repos' :
               r.connection_id = response'.value => ~r.selected]_vars

(* ============================= withRetry =============================== *)
\* error is an object whose status is 403 or 429
HasStatus403Or429(error) ==
    /\ error.kind \in {"Error", "object"}
    /\ error.status \in {403, 429}

\* the invocation has the default arguments and every call of fn so far has
\* rejected with status 403 or 429
AlwaysRateLimited ==
    /\ pc # "idle"
    /\ maxRetries = DefaultMaxRetries
    /\ delay = DefaultDelay
    /\ calls = Len(thrown)
    /\ \A k \in 1..Len(thrown) : HasStatus403Or429(thrown[k])

\* C7 as stated: with the defaults and a function that fails with status 429
\* or 403 on every call, the function is called exactly 3 times and withRetry
\* then raises the error of the last call.
C7_AsStated ==
    AlwaysRateLimited =>
       /\ calls <= 3
       /\ pc = "raised" => calls = 3 /\ raised = thrown[3]

\* C7, amended: with the defaults and a function that fails with status 429
\* or 403 on every call, the function is called exactly 3 times and withRetry
\* then raises the error of the last call when that is an Error instance,
\* and otherwise a new Error whose message is the string form of the value
\* of the last call.
C7_ThreeCallsThenRaise ==
    AlwaysRateLimited =>
       /\ calls <= 3
       /\ pc # "returned"
       /\ pc = "raised" => calls = 3 /\ raised = AsError(thrown[3])

\* withRetry has raised after three calls that were all rate limited
C7_Witness ==
    /\ AlwaysRateLimited
    /\ pc = "raised"
    /\ calls = 3
    /\ thrown[3].status = 429
    /\ raised = thrown[3]

\* the last call of fn rejected with a value that is no 403 or 429 error
LastNotRateLimited ==
    /\ thrown # <<>>
    /\ ~HasStatus403Or429(thrown[Len(thrown)])

\* C8 as stated: when a call fails with an error that is not status 403 or
\* 429, withRetry raises that error at once, with no further call and no
\* wait.
C8_AsStated ==
    LastNotRateLimited =>
       /\ pc = "raised"
       /\ raised = thrown[Len(thrown)]
       /\ calls = Len(thrown)
       /\ Len(waits) = Len(thrown) - 1

\* C8, amended: when a call fails with a value that is not a 403 or 429
\* error, withRetry raises at once, with no further call and no wait: it
\* raises that value when it is an Error instance and otherwise a new Error
\* whose message is the string form of that value.
C8_OtherErrorsRaiseAtOnce ==
    LastNotRateLimited =>
       /\ pc = "raised"
       /\ raised = AsError(thrown[Len(thrown)])
       /\ calls = Len(thrown)
       /\ Len(waits) = Len(thrown) - 1
       /\ i = Len(thrown) - 1

\* a 500 on the second attempt, after one rate-limited attempt, was raised
C8_Witness ==
    /\ LastNotRateLimited
    /\ Len(thrown) = 2
    /\ thrown[2].status = 500
    /\ pc = "raised"
    /\ raised = thrown[2]
    /\ Len(waits) = 1

(* ========================== detectTarefaKeys =========================== *)
\* str is TSK- in any letter case followed by one or more groups of
\* letters and digits separated by single hyphens
KeyShape(str) ==
    /\ Len(str) >= 5
    /\ <<Upper(str[1]), Upper(str[2]), Upper(str[3]), str[4]>> = <<"T", "S", "K", "-">>
    /\ \A k \in 5..Len(str) :
          \/ IsAlnum(str[k])
          \/ /\ str[k] = "-"
             /\ k < Len(str)
             /\ IsAlnum(str[k - 1])
             /\ IsAlnum(str[k + 1])

\* the ends of the substrings of that shape that start at position a
ShapeEnds(str, a) ==
    {b \in a..Len(str) : KeyShape(SubSeq(str, a, b))}

\* the matches of a left-to-right scan from position p: at the first
\* position where a substring of the shape starts, the longest one, then
\* the matches after its end
RECURSIVE Matches(_, _)
Matches(str, p) ==
    IF p > Len(str) THEN {}
    ELSE IF ShapeEnds(str, p) = {} THEN Matches(str, p + 1)
    ELSE LET b == CHOOSE e \in ShapeEnds(str, p) :
                     \A f \in ShapeEnds(str, p) : f <= e
         IN  {<<p, b>>} \cup Matches(str, b + 1)

\* 'TSK-' + rest for every match
ExpectedKeys(str) ==
    {<<"T", "S", "K", "-">> \o SubSeq(str, m[1] + 4, m[2]) : m \in Matches(str, 1)}

\* TSK- in any letter case stands at position p
TskAt(str, p) ==
    /\ p + 3 <= Len(str)
    /\ <<Upper(str[p]), Upper(str[p + 1]), Upper(str[p + 2]), str[p + 3]>>
         = <<"T", "S", "K", "-">>

\* C9: the array detectTarefaKeys returns has no duplicate entry and holds
\* exactly the strings 'TSK-' + rest of the matches of the text; it is empty
\* for the empty text and for a text in which no TSK- is followed by a
\* letter or digit.
C9_DetectedKeys ==
    detected =>
       /\ \A j, k \in 1..Len(keys) : j # k => keys[j] # keys[k]
       /\ {keys[k] : k \in 1..Len(keys)} = ExpectedKeys(text)
       /\ text = <<>> => keys = <<>>
       /\ (\A p \in 1..Len(text) :
             TskAt(text, p) => ~(p + 4 <= Len(text) /\ IsAlnum(text[p + 4])))
          => keys = <<>>

\* a text with 'TSK-7' and 'tsk-7' and a bare 'TSK-' gave the single key
\* 'TSK-7'
C9_Witness ==
    /\ detected
    /\ Cardinality(Matches(text, 1)) = 2
    /\ keys = << <<"T", "S", "K", "-", "7">> >>
    /\ \E p \in 1..Len(text) : SubSeq(text, p, p + 4) = <<"t", "s", "k", "-", "7">>

(* =========================== createAutoLinks =========================== *)
\* C10 as stated: of two runs with the same arguments the first leaves
\* exactly one matching row for every resolved task that had none, and the
\* second adds no row, whatever the table held before.
C10_AsStated ==
    [][AutoLink =>
         /\ runs = 1 => tarefa_git_links' = tarefa_git_links
         /\ runs = 0 =>
              \A t \in FoundTarefas(args.tarefaKeys, args.projectId) :
                 MatchingLinks(tarefa_git_links, t.id, args.metadata) = {}
                 => Cardinality(MatchingLinks(tarefa_git_links', t.id,
                                              args.metadata)) = 1]_vars

(* ======================= links are deduplicated ======================== *)
\* C11 as stated: after any sequence of manual link creations and auto-link
\* runs, no two rows of tarefa_git_links have the same tuple (tarefa_id,
\* provider, branch, commit_sha, pr_number), two absent fields counting as
\* equal.
C11_AsStated ==
    \A l \in tarefa_git_links : SameTuple(tarefa_git_links, l) = {l}

(* ========================= issuing a state ============================= *)
\* the caller is a member of the project with the role admin
IsAdminOf(auth, projectId) ==
    /\ auth # NULL
    /\ \E m \in project_members :
          m.user_id = auth /\ m.project_id = projectId /\ m.role = "admin"

\* C12: POST /start stores a state row only for a caller who is admin of the
\* requested project; the row it stores carries that caller's user id and
\* that project id and expires 5 minutes after the request, and when the
\* request is answered with an authorize URL the state of that URL is the
\* token of the stored row.
C12_StartStoresBoundState ==
    [][\A auth \in Callers, p \in ProjectArgs, f \in BOOLEAN :
          (response'.op = "oauth_start" /\ OAuthStart(auth, p, f)) =>
             /\ github_oauth_states' # github_oauth_states =>
                  /\ IsAdminOf(auth, p)
                  /\ \E row \in github_oauth_states' \ github_oauth_states :
                        /\ github_oauth_states' = github_oauth_states \cup {row}
                        /\ row.user_id = auth
                        /\ row.project_id = p
                        /\ row.expires_at = now + 5
             /\ response'.status = 200 =>
                  \E row \in github_oauth_states' \ github_oauth_states :
                     row.state = response'.value]_vars

\* the admin of p1 was given an authorize URL five minutes into the run, and
\* the row of its state is stored for that admin and p1 with five minutes
\* to live
C12_Witness ==
    /\ response.op = "oauth_start"
    /\ response.status = 200
    /\ now = 5
    /\ \E row \in github_oauth_states :
          /\ row.state = response.value
          /\ row.user_id = "u1"
          /\ row.project_id = "p1"
          /\ row.expires_at = 10

(* ==================== attribution of a connection ====================== *)
\* the connections a step writes: the rows it inserts or changes
Written == provider_connections' \ provider_connections

\* C13: a connection written by a successful callback has the project id of
\* the stored row of the state the request carries and, when it is a new
\* row, created_by equal to that row's user id; the authorization header of
\* the request changes neither the response nor the tables the callback
\* leaves.
C13_AttributionFromState ==
    [][\A fn \in CallbackFns, r \in CallbackRequests :
          (response'.reason = "connected" /\ GetCallback(fn, r)) =>
             /\ \E stored \in github_oauth_states :
                   /\ stored.state = r.state
                   /\ \A c \in Written :
                         /\ c.project_id = stored.project_id
                         /\ (\A d \in provider_connections : d.id # c.id)
                            => c.created_by = stored.user_id
             /\ \A a \in Callers :
                   ServeCallback(fn, r.method, a, r.code, r.state)
                     = ServeCallback(fn, r.method, r.auth, r.code, r.state)]_vars

\* both admins hold a state and the callback with the state of the second
\* admin succeeded: the connections of p1 and p2 are attributed to u1 and u2
C13_Witness ==
    /\ response.op = "oauth_callback"
    /\ response.reason = "connected"
    /\ \E c, d \in provider_connections :
          /\ c.project_id = "p1" /\ c.created_by = "u1"
          /\ d.project_id = "p2" /\ d.created_by = "u2"
          /\ d.id = 1

(* ===================== the upsert of a connection ====================== *)
\* the github connection rows of a project in a table
GithubConnections(conns, projectId) ==
    {c \in conns : c.project_id = projectId /\ c.provider = "github"}

\* C14 as stated: a successful OAuth callback for a project that has a
\* github connection row leaves the number of the project's github rows as
\* it was, and otherwise inserts exactly one row; the connection it wrote is
\* active.
C14_AsStated ==
    [][\A fn \in CallbackFns, r \in CallbackRequests :
          (response'.reason = "connected" /\ GetCallback(fn, r)) =>
             \A stored \in github_oauth_states :
                stored.state = r.state =>
                   LET before == GithubConnections(provider_connections,
                                                   stored.project_id)
                       after == GithubConnections(provider_connections',
                                                  stored.project_id)
                   IN  /\ before # {} => Cardinality(after) = Cardinality(before)
                       /\ before = {} => Cardinality(after) = 1
                       /\ \E c \in after : c.status = "active"
                       /\ \A c \in Written : c.status = "active"]_vars

(* ============================ the audit log ============================ *)
AllAuditOutcomes == {"ok", "error", "throw"}

\* C15: whether the audit insert succeeds, returns an error or throws, the
\* operation that called logAuditEvent gives the same response and leaves
\* the same connections, repositories and states: every step of a callback,
\* a revocation or a sync that reached the audit log could have been taken
\* with each other outcome of the insert, and it ends in success.
C15_AuditNeverFailsCaller ==
    [][\A X \in {<<response', provider_connections', repos', github_oauth_states'>>} :
          LET same == <<response', provider_connections', repos',
                        github_oauth_states'>> = X
              room == Len(audit_events) < MaxAuditRows
              accepted == response'.status \in {200, 500}
          IN  /\ response'.op = "oauth_callback" =>
                 \A fn \in CallbackFns, r \in CallbackRequests :
                    (/\ GetCallback(fn, r)
                     /\ \E row \in github_oauth_states \ github_oauth_states' :
                           row.state = r.state) =>
                       /\ response'.reason = "connected"
                       /\ ENABLED (/\ OAuthCallback(fn, r.method, r.auth, r.code, r.state)
                                   /\ same
                                   /\ audit_events' = audit_events)
                       /\ room =>
                            ENABLED (/\ OAuthCallback(fn, r.method, r.auth, r.code,
                                                      r.state)
                                     /\ same
                                     /\ audit_events' # audit_events)
              /\ (response'.op = "oauth_revoke" /\ accepted) =>
                 \A auth \in Users, p \in Projects, rf \in {"ok", "throw"},
                    f \in BOOLEAN, a \in AllAuditOutcomes :
                    OAuthRevoke(auth, p, rf, f, a) =>
                       /\ provider_connections' # provider_connections
                            => response'.status = 200
                       /\ \A a2 \in AllAuditOutcomes :
                             ENABLED (OAuthRevoke(auth, p, rf, f, a2) /\ same)
              /\ (response'.op = "app_callback" /\ accepted) =>
                 \A auth \in Users, p \in Projects, inst \in Installations,
                    g \in {"ok", "throw"}, f \in BOOLEAN, a \in AllAuditOutcomes :
                    AppCallback(auth, p, inst, g, f, a) =>
                       /\ provider_connections' # provider_connections
                            => response'.status = 200
                       /\ \A a2 \in AllAuditOutcomes :
                             ENABLED (AppCallback(auth, p, inst, g, f, a2) /\ same)
              /\ (/\ response'.op = "sync"
                  /\ repos' # repos \/ audit_events' # audit_events) =>
                 \A auth \in Users, c \in 1..MaxConnections :
                    Sync(auth, c, <<NoId, NULL>>) =>
                       /\ response'.status = 200
                       /\ \A row \in provider_connections' :
                             \E old \in provider_connections :
                                old.id = row.id /\ old.status = row.status
                       /\ ENABLED (/\ Sync(auth, c, <<NoId, NULL>>)
                                   /\ same
                                   /\ audit_events' = audit_events)
                       /\ room =>
                            ENABLED (/\ Sync(auth, c, <<NoId, NULL>>)
                                     /\ same
                                     /\ audit_events' # audit_events)]_vars

\* a callback connected a project although its audit insert failed: the
\* connection is active and the log is empty
C15_Witness ==
    /\ response.op = "oauth_callback"
    /\ response.reason = "connected"
    /\ audit_events = <<>>
    /\ \E c \in provider_connections :
          c.status = "active" /\ c.access_token_encrypted = "token"

(* =========================== the token check =========================== *)
\* the tables of the store are as they were
StoreUnchanged ==
    UNCHANGED <<project_members, github_oauth_states, provider_connections, repos,
                branches, project_repos, audit_events, tarefas, tarefa_git_links>>

\* a request other than a preflight, without a valid token, is handled in
\* this step by one of the routes behind the token check
UnauthenticatedRequest ==
    \/ /\ response'.op = "oauth_start"
       /\ \E p \in ProjectArgs, f \in BOOLEAN : OAuthStart(NULL, p, f)
    \/ /\ response'.op = "oauth_revoke"
       /\ \E p \in ProjectArgs, rf \in {"ok", "throw"}, f \in BOOLEAN,
             a \in AllAuditOutcomes : OAuthRevoke(NULL, p, rf, f, a)
    \/ /\ response'.op = "app_callback"
       /\ \E p \in ProjectArgs, inst \in Installations \cup {NULL},
             g \in {"ok", "throw"}, f \in BOOLEAN, a \in AllAuditOutcomes :
             AppCallback(NULL, p, inst, g, f, a)
    \/ /\ response'.op = "sync"
       /\ \E c \in 0..MaxConnections,
             r \in ((1..MaxConnections) \X ProviderRepos) \cup {<<NoId, NULL>>} :
             Sync(NULL, c, r)
    \/ /\ response'.op = "delete_connection"
       /\ \E c \in 1..MaxConnections, f \in BOOLEAN, a \in AllAuditOutcomes :
             DeleteConnection(NULL, c, f, a)
    \/ /\ response'.op = "create_link"
       /\ \E t \in {NoId, 1, 3, 9}, b \in {NULL, "b1"}, n \in {NoNumber, 42},
             f \in BOOLEAN : CreateLink(NULL, t, b, NULL, n, f)
    \/ /\ response'.op = "read"
       /\ \E fn \in Functions, status \in ReadStatuses \cup {401} :
             ReadRoute(fn, NULL, status)

\* an OPTIONS request, which carries no token, is handled in this step
PreflightRequest ==
    /\ response'.op = "preflight"
    /\ \E fn \in Functions : Preflight(fn)

\* C16 as stated: on every route other than the provider callback, a request
\* without a valid bearer token gets status 401 and changes nothing in the
\* store.
C16_AsStated ==
    [][(UnauthenticatedRequest \/ PreflightRequest) =>
          response'.status = 401 /\ StoreUnchanged]_vars

\* C16, amended: on every route other than the provider callback, a request
\* of a method other than OPTIONS without a valid bearer token gets status
\* 401 with the error Unauthorized and changes nothing in the store; an
\* OPTIONS request is answered with an empty 200 before the token check and
\* changes nothing either.
C16_TokenCheckedFirst ==
    [][/\ UnauthenticatedRequest =>
            /\ response'.status = 401
            /\ response'.reason = "Unauthorized"
            /\ StoreUnchanged
       /\ PreflightRequest =>
            /\ response'.status = 200
            /\ response'.kind = "empty"
            /\ StoreUnchanged]_vars

\* a sync of an existing connection was asked for without a token and
\* refused
C16_Witness ==
    /\ response.op = "sync"
    /\ response.status = 401
    /\ provider_connections # {}
    /\ tarefa_git_links # {}

(* ====================== the project of an auto-link ==================== *)
\* the tasks of the project that the keys name
ResolvedTarefas == {t \in tarefas : t.project_id = args.projectId
                               /\ t.key \in args.tarefaKeys}

\* C17: a run of createAutoLinks adds rows only for tasks of the project it
\* was given whose key is among the keys; a key that names no task of that
\* project, or a task of another project, adds no row, and every task of the
\* project that the other keys name and that had no matching link gets one.
C17_LinksOnlyInProject ==
    [][AutoLink =>
         /\ tarefa_git_links \subseteq tarefa_git_links'
         /\ \A l \in tarefa_git_links' \ tarefa_git_links :
               \E t \in ResolvedTarefas : t.id = l.tarefa_id
         /\ \A t \in ResolvedTarefas :
               MatchingLinks(tarefa_git_links, t.id, args.metadata) = {}
               => \E l \in tarefa_git_links' \ tarefa_git_links :
                     l.tarefa_id = t.id
         /\ runs' = runs + 1]_vars

\* a run for project p2 with the keys TSK-1 and TSK-2 linked the task TSK-1
\* of p2 and nothing else, although TSK-2 is a task of p1
C17_Witness ==
    /\ runs = 1
    /\ args.projectId = "p2"
    /\ args.tarefaKeys = {"TSK-1", "TSK-2"}
    /\ \E l \in tarefa_git_links : l.auto_linked /\ l.tarefa_id = 3
    /\ \A l \in tarefa_git_links : l.auto_linked => l.tarefa_id = 3

(* ===================== failures of the provider API ==================== *)
\* POST /sync?connectionId=c is handled in this step, for a connection that
\* has an installation, and the listing of its repositories fails: the
\* catch of syncRepos marks the connection as in error
ListingFails(auth, c) ==
    /\ response'.op = "sync"
    /\ Sync(auth, c, <<NoId, NULL>>)
    /\ \E old \in provider_connections :
          /\ old.id = c
          /\ old.installation_id # NULL
          /\ old.status # "error"
    /\ \E new \in provider_connections' : new.id = c /\ new.status = "error"

\* C18 as stated: POST /sync of git-connect answers 500 when the repository
\* listing for the connection fails.
C18_AsStated ==
    [][\A auth \in Users, c \in 1..MaxConnections :
          ListingFails(auth, c) => response'.status = 500]_vars

(* ========================== waits of withRetry ========================= *)
\* the failures among the first n that carried the status 403 or 429
RECURSIVE RateLimited(_)
RateLimited(n) ==
    IF n = 0 THEN 0
    ELSE RateLimited(n - 1) + (IF IsRateLimit(thrown[n]) THEN 1 ELSE 0)

\* C19: in withRetry the k-th failure with status 403 or 429 is followed by
\* a wait of delay * k: the waits made so far are delay, 2 * delay, ... in
\* this order, one for each such failure (the last one is still to be made
\* while its failure is being handled), and a wait follows such a failure
\* before any other step.
C19_LinearWaits ==
    /\ \A k \in 1..Len(waits) : waits[k] = delay * k
    /\ Len(waits) = RateLimited(Len(thrown)) - (IF pc = "waiting" THEN 1 ELSE 0)
    /\ pc = "waiting" => /\ IsRateLimit(thrown[Len(thrown)])
                         /\ ENABLED RetryWait
                         /\ ~ENABLED CallStep
                         /\ ~ENABLED RetryExhausted

C19_Witness ==
    /\ delay = DefaultDelay
    /\ waits = <<DefaultDelay, 2 * DefaultDelay, 3 * DefaultDelay>>
    /\ Len(thrown) = 3
    /\ pc = "loop"

(* ===================== partial failures of a sync ====================== *)
\* POST /sync?connectionId=c is handled in this step, for a connection that
\* has an installation
SyncOf(auth, c) ==
    /\ response'.op = "sync"
    /\ \E row \in provider_connections : row.id = c /\ row.installation_id # NULL
    /\ Sync(auth, c, <<NoId, NULL>>)

\* syncRepos ran its try block to the end in this step, the upserts of the
\* repositories in failed and the syncs of the branches of those in
\* branchFailed failing
SyncCompletes(auth, c, failed, branchFailed, a) ==
    LET o == syncReposDone(provider_connections, repos, audit_events, c,
                           validateAuth(auth), failed, branchFailed, a)
    IN  /\ provider_connections' = o.conns
        /\ repos' = o.repos
        /\ branches' = o.branches
        /\ audit_events' = o.audit

\* C20: in syncRepos the failure of the upsert of a repository, or of the
\* sync of the branches of one, does not stop the sync: every other listed
\* repository has its row, every other upserted repository has its
\* branches, the connection's last_sync_at is the time of the sync and its
\* status is what it was.
C20_PartialFailureGoesOn ==
    [][\A auth \in Users, c \in 1..MaxConnections :
          SyncOf(auth, c) =>
             \A failed \in SUBSET github_repos, branchFailed \in SUBSET github_repos,
                a \in AllAuditOutcomes :
                SyncCompletes(auth, c, failed, branchFailed, a) =>
                   /\ \A n \in github_repos \ failed :
                         \E r \in repos' :
                            r.connection_id = c /\ r.provider_repo_id = n
                   /\ \A n \in (github_repos \ failed) \ branchFailed :
                         \A b \in listBranches(n) :
                            BranchRow(<<c, n>>, b) \in branches'
                   /\ \A new \in provider_connections' :
                         new.id = c =>
                            /\ new.last_sync_at = now
                            /\ \E old \in provider_connections :
                                  old.id = c /\ old.status = new.status
                   /\ repos \subseteq repos'
                   /\ branches \subseteq branches'
                   /\ response'.status = 200]_vars

\* a sync in which the upsert of r1 failed and the sync of the branches of
\* r2 failed: r2 has its row, the connection is active and synced now
C20_Witness ==
    /\ response.op = "sync"
    /\ now > 0
    /\ \E c \in provider_connections :
          /\ c.status = "active"
          /\ c.last_sync_at = now
          /\ \E r \in repos : r.connection_id = c.id /\ r.provider_repo_id = "r2"
          /\ ~\E r \in repos : r.connection_id = c.id /\ r.provider_repo_id = "r1"
    /\ branches = {}

(* ================= revocation and the provider's answer ================ *)
\* POST /connection/revoke for project p reaches the token revocation in
\* this step, the fetch ending as rf, and the update of the status succeeds
RevokeWith(auth, p, rf, a) ==
    /\ response'.op = "oauth_revoke"
    /\ canConnectGit(validateAuth(auth), p)
    /\ LET connection ==
               MaybeSingle({c \in provider_connections :
                              c.project_id = p /\ c.provider = "github"})
       IN  connection # NoRow /\ connection.access_token_encrypted # NULL
    /\ OAuthRevoke(auth, p, rf, FALSE, a)

\* C21: in handleRevokeConnection, whether the token revocation call to the
\* provider succeeds, answers with an error or throws, the connection of
\* the project gets the status revoked and the request is answered with ok
\* (status 200), the update of the status itself succeeding.
C21_RevokedWhateverProviderSays ==
    [][\A auth \in Users, p \in Projects, rf \in RevokeOutcomes,
          a \in AllAuditOutcomes :
          RevokeWith(auth, p, rf, a) =>
             /\ response'.status = 200
             /\ \A c \in provider_connections' :
                   c.project_id = p => c.status = "revoked"
             /\ \A rf2 \in RevokeOutcomes :
                   ENABLED (/\ OAuthRevoke(auth, p, rf2, FALSE, a)
                            /\ response'.status = 200)]_vars

C21_Witness ==
    /\ response.op = "oauth_revoke"
    /\ response.status = 200
    /\ \E c \in provider_connections :
          /\ c.id = response.value
          /\ c.status = "revoked"
          /\ c.access_token_encrypted # NULL

(* ================== who reads a repository of a project ================ *)
\* the caller is a member of the project the repository is linked to
IsMemberOfRepo(userId, repoId) ==
    \E l \in project_repos, m \in project_members :
       l.repo_id = repoId /\ m.project_id = l.project_id /\ m.user_id = userId

\* C22 as stated: every read route of git-repos answers 403 to an
\* authenticated caller who is not a member of the project the repository is
\* linked to, and returns no repository data to them.
C22_AsStated ==
    [][\A route \in RepoRoutes, auth \in Users, repoId \in RepoIds :
          (/\ response'.op = route
           /\ \E l \in project_repos : l.repo_id = repoId
           /\ ~IsMemberOfRepo(auth, repoId)
           /\ \E pathGiven \in BOOLEAN, fetch \in {"ok", "throw", "dir"} :
                 RepoRead(route, auth, repoId, pathGiven, fetch))
          => response'.status = 403]_vars

(* ===================== callbacks that end in an error ================== *)
\* a callback request is answered in this step with a redirect to an error
\* page
ErrorRedirect ==
    /\ response'.op = "oauth_callback"
    /\ response'.kind = "redirect"
    /\ response'.reason # "connected"
    /\ \E fn \in CallbackFns, r \in CallbackRequests :
          OAuthCallback(fn, r.method, r.auth, r.code, r.state)

\* C23: a callback that ends in an error redirect (missing parameters,
\* invalid or expired state, failed token exchange, no access token, failed
\* identity fetch, persistence error) leaves provider_connections as it was
\* and adds no audit record.
C23_ErrorRedirectWritesNothing ==
    [][ErrorRedirect =>
          /\ provider_connections' = provider_connections
          /\ audit_events' = audit_events]_vars

\* the update of an existing connection failed: the connection made by an
\* earlier callback is as that callback left it, with its one audit record
C23_Witness ==
    /\ response.op = "oauth_callback"
    /\ response.kind = "redirect"
    /\ response.reason = UpdateFailedReason(response.fn)
    /\ Cardinality(provider_connections) = 1
    /\ Len(audit_events) = 1

(* ================= two callbacks with the same state =================== *)
\* C24 as stated: of two callback requests that carry the same valid state
\* and run interleaved, at most one writes the connection and reports
\* success.
C24_AsStated ==
    ~(/\ inflight[1].state = inflight[2].state
      /\ inflight[1].reason = "connected"
      /\ inflight[2].reason = "connected")

(* ==================== POST /start that ends in an error ================ *)
\* C25 as stated: when POST /start of github-oauth answers 400, 403 or 500
\* (the answer 'GitHub OAuth not configured' included), the request has
\* added no row to github_oauth_states.
C25_AsStated ==
    [][(/\ response'.op = "oauth_start"
        /\ response'.status \in {400, 403, 500}
        /\ \E auth \in Callers, p \in ProjectArgs, f \in BOOLEAN :
              OAuthStart(auth, p, f))
       => github_oauth_states' = github_oauth_states]_vars

(* ============ who can change the status of a connection ================ *)
\* POST /sync?connectionId=c is handled in this step for a caller who is
\* authenticated and is not admin of the project of connection c
SyncByNonAdmin(auth, c) ==
    /\ response'.op = "sync"
    /\ \E row \in provider_connections :
          row.id = c /\ ~canConnectGit(validateAuth(auth), row.project_id)
    /\ Sync(auth, c, <<NoId, NULL>>)

\* C26 as stated: POST /sync of git-connect issued by a user who is not
\* admin of the connection's project leaves the status of the connection as
\* it was, whether the sync succeeds or fails.
C26_AsStated ==
    [][\A auth \in Users, c \in 1..MaxConnections :
          SyncByNonAdmin(auth, c) =>
             \A new \in provider_connections' :
                new.id = c =>
                   \E old \in provider_connections :
                      old.id = c /\ old.status = new.status]_vars

(* ===================== after a connection is revoked =================== *)
\* a read route of git-repos gets as far as the provider call in this step,
\* with a client built from the installation of connection c
ClientBuiltFor(c) ==
    /\ response'.op \in ProviderRoutes
    /\ response'.status \in {200, 500}
    /\ \E route \in ProviderRoutes, auth \in Users, repoId \in RepoIds,
          fetch \in {"ok", "throw"} :
          /\ repoId[1] = c
          /\ RepoRead(route, auth, repoId, TRUE, fetch)

\* C27 as stated: once the status of a connection is revoked, it stays
\* revoked until a callback sets it active again, and no handler builds a
\* provider client from its credential or calls the provider on its behalf.
C27_AsStated ==
    [][\A c \in provider_connections :
          c.status = "revoked" =>
             /\ \A new \in provider_connections' :
                   new.id = c.id => new.status \in {"revoked", "active"}
             /\ ~ClientBuiltFor(c.id)]_vars

(* ========================= the default branch ========================== *)
\* the branch rows of a repository that are marked as its default
DefaultRows(r) ==
    {b \in branches : /\ b.repo_id = <<r.connection_id, r.provider_repo_id>>
                      /\ b.is_default}

\* C28 as stated: after syncBranches at most one branch row of a repository
\* has is_default = true, and it is the branch named by the default_branch
\* of the repository.
C28_AsStated ==
    \A r \in repos :
       /\ Cardinality(DefaultRows(r)) <= 1
       /\ \A b \in DefaultRows(r) : b.name = r.default_branch

(* ===================== how withRetry comes to an end =================== *)
\* the invocation has returned or raised
RetryDone == pc \in {"returned", "raised"}

\* new Error("Max retries exceeded")
MaxRetriesExceeded ==
    [kind |-> "Error", status |-> NoStatus, message |-> "Max retries exceeded",
     origin |-> 0]

\* C29 as stated: withRetry calls its function at most maxRetries times,
\* stops at the first call that succeeds and returns its value, and when it
\* raises, the error raised is the one from the last call made.
C29_AsStated ==
    /\ calls <= maxRetries
    /\ pc = "returned" => calls = Len(thrown) + 1 /\ returned = Resolved(calls)
    /\ pc = "raised" => calls >= 1 /\ raised = thrown[calls]

\* what holds of the calls and of the result at every moment
RetryResult ==
    /\ calls <= maxRetries
    /\ Len(thrown) \in {calls - 1, calls}
    /\ pc = "returned" =>
          /\ calls = Len(thrown) + 1
          /\ returned = Resolved(calls)
          /\ ~ENABLED NextRetry
    /\ pc = "raised" =>
          /\ calls = Len(thrown)
          /\ raised = IF calls = 0 THEN MaxRetriesExceeded
                      ELSE AsError(thrown[calls])
          /\ ~ENABLED NextRetry

\* C29, amended: withRetry always terminates, the calls of its function
\* terminating, and calls it at most maxRetries times; it stops at the
\* first call that succeeds and returns that call's value without another
\* call; when it raises, it raises the value the last call rejected with
\* when that is an Error instance, a new Error with the string form of that
\* value as message otherwise, and a new Error 'Max retries exceeded' when
\* maxRetries is 0 and no call was made.
C29_TerminatesWithLastResult == []RetryResult /\ <>RetryDone

\* two rate-limited calls rejecting with plain objects, of two allowed: what
\* is raised is a new Error made from the second
C29_Witness ==
    /\ pc = "raised"
    /\ maxRetries = 2
    /\ calls = 2
    /\ thrown[2].kind = "object"
    /\ thrown[2].status = 429
    /\ raised = AsError(thrown[2])
    /\ raised # thrown[2]

(* ============== keys mentioned in another letter case ================== *)
\* a sequence of characters in upper case
UpperCase(str) == [k \in 1..Len(str) |-> Upper(str[k])]

\* the text mentions the key in some letter case: detectTarefaKeys finds a
\* key that differs from it in letter case at most
MentionedIn(key, str) ==
    \E found \in Elements(detectTarefaKeys(str)) :
       UpperCase(found) = UpperCase(key)

\* C30 as stated: processAutoLink links a task of the given project
\* whenever the text mentions the key of the task in any letter case (a
\* text containing tsk-a-7 for the key TSK-A-7): after the call an
\* association record of that task is stored.
C30_AsStated ==
    [][ProcessAutoLink =>
          \A t \in tarefas :
             (t.project_id = args.projectId /\ MentionedIn(t.key, text))
             => \E l \in tarefa_git_links' : l.tarefa_id = t.id]_vars

====
